---------------------------- MODULE Spec2Model ----------------------------
(***************************************************************************)
(* ZELL file processor: the compile screen with OfflineProcessor.mergeFiles,*)
(* the convert screen with ConversionService.convertFile, and the backend   *)
(* converters, modelled as state machines translated from the sources.      *)
(***************************************************************************)
EXTENDS Integers, Sequences, FiniteSets, TLC

(***************************************************************************)
(* Bounds of the model.                                                     *)
(***************************************************************************)
\* total number of files the document picker hands out in one behaviour
MaxFiles == 2
\* largest number of assets one picker result carries
MaxPick == 1
\* chunks (bytes, or pages of a PDF) of every picked file
ChunksPerFile == 2
\* last value of the millisecond clock Date.now()
MaxNow == 1
\* number of times Compile is pressed in one behaviour
MaxCompilations == 1
\* number of direct calls of mergeFiles in one behaviour
MaxMergeCalls == 1
\* number of calls of processImage in one behaviour
MaxProcessCalls == 1
\* number of times Convert File is pressed in one behaviour
MaxConversions == 2
\* number of requests the server receives in one behaviour
MaxRequests == 2
\* number of GET /api/download requests the server receives in one behaviour
MaxDownloads == 1
\* largest size of an upload, and of a converter's output, in bytes
MaxSize == 2
\* largest size of a file processImage is called on, in bytes
MaxImageSize == 1

(***************************************************************************)
(* Formats.                                                                 *)
(***************************************************************************)
ImageTypes == {"jpg", "jpeg", "png", "webp", "gif"}
AudioTypes == {"mp3", "wav", "aac"}
VideoTypes == {"mp4", "mov", "avi", "mkv"}
DocumentTypes == {"pdf", "docx", "txt", "pptx"}
ArchiveTypes == {"zip", "rar", "7z"}

\* extensions of the files the picker returns in this model
PickExts == {"jpg", "mp3", "mp4", "pdf"}

\* the format chips that get pressed in this model, when they are shown
PressedFormats == {"pdf", "zip", "mp3", "mp4"}

\* JavaScript's undefined, as an element of fileOrder (file ids are >= 1)
Undefined == 0

VARIABLES
    \* ---- CompileScreen (React state) ----
    selectedFiles,    \* sequence of [id, ext]
    fileOrder,        \* sequence of ids (or Undefined)
    outputFormat,     \* "" or a format
    isCompiling,
    compileProgress,  \* a fraction <<num, den>>
    compileResult,    \* <<>> (null) or <<result>>
    nextId,           \* next id Date.now() + Math.random() yields
    shown,            \* what the FlatList showed when Compile was pressed
    offered,          \* the format chips shown when Compile was pressed
    compilations,     \* number of times Compile was pressed
    \* ---- OfflineProcessor.mergeFiles (one call) ----
    mfPc,             \* "idle", "read", "merge", "write", "done", "failed"
    mfFiles,          \* the files argument
    mfFormat,         \* the outputFormat argument
    mfBuffers,        \* buffers read so far
    mfMerged,         \* mergedData
    mfProgress,       \* the values passed to onProgress, in order
    mfLog,            \* the calls made on FileSystem and the mergers, in order
    mfOutputPath,     \* outputPath
    mfResult,         \* <<>> or <<the resolved value>>
    cacheAtStart,     \* the cache directory when the call began (or now, if none)
    \* ---- OfflineProcessor.processImage (one call) ----
    piPc,             \* "idle", "read", "convert", "write", "done", "failed"
    piFile,           \* the file argument: <<>> or <<[ext, size]>>
    piTarget,         \* the targetFormat argument
    piBuffer,         \* <<>> or <<the number of bytes read>>
    piProgress,       \* the values passed to onProgress, in order
    piOutputPath,     \* outputPath
    piResult,         \* <<>> or <<the resolved value>>
    piCalls,          \* number of calls of processImage made
    \* ---- ConvertScreen (React state) and ConversionService.convertFile ----
    cvSelectedFile,   \* <<>> (null) or <<[ext]>>
    cvTargetFormat,   \* targetFormat: "" or a format
    isConverting,
    conversionProgress, \* a number
    conversionResult, \* <<>> (null) or <<result>>
    intervals,        \* ids of the setInterval timers that are live
    progressInterval, \* <<>> or <<id of the timer of the running handler>>
    cfPc,             \* convertFile: "idle", "fetch", "loop"
    cfI,              \* the loop variable i of convertFile
    cfArgs,           \* <<>> or <<[file, targetFormat]>>: convertFile's arguments
    conversions,      \* number of times Convert File was pressed
    \* ---- backend server ----
    requests,         \* request number -> the state of its handler
    serverNow,        \* Date.now() on the server
    uploadsDir,       \* uploads present, by request number
    outputFiles,      \* set of [path, size, entries]: files of outputs/
    tempDirs,         \* the temp_<t> directories of outputs/ that exist
    tempEntries,      \* set of [dir, from]: what is extracted in them
    converterCalls,   \* set of [converter, ext, target, compressionLevel]:
                      \* the convert() calls made
    downloads,        \* the GET /api/download requests answered, in order:
                      \* [filename, status, sent]
    removals,         \* outputs whose removal a download has scheduled
    \* ---- WebAssembly modules (one call) ----
    wasmCall,         \* the exported function called, with its arguments
    wasmRet,          \* what the call returned and left in its output buffers
    \* ---- ArchiveConverter.createArchiveFromFiles (one call) ----
    bundleCall,       \* [filePaths, format, existing]: the call and the disk
    bundleEntries,    \* the entries handed to the archive, in order
    bundlePc,         \* "none", "finalized", "resolved", "rejected"
    \* ---- SupabaseHistoryService over HistoryService ----
    hsLocal,          \* the SQLite history table: [rows, nextId]
    hsRemote,         \* the Supabase table: [rows, nextId]
    hsCall,           \* the operation in progress: [op, arg, enabled]
    hsPc,             \* "idle", "awaiting" (the Supabase call), "done"
    hsFailed,         \* the Supabase call of this operation failed
    hsResult,         \* what the operation returned
    hsCalls,          \* operations started
    \* ---- EditScreen (React state) ----
    edSelectedFile,   \* selectedFile: <<>> (null) or <<name>>
    editResult,       \* <<>> (null) or <<result>>
    undoStack,        \* list of [file, result]
    redoStack,        \* list of [file, result]
    isProcessing,
    processingProgress,
    edCall,           \* <<>> or <<[file, result, n, undoRedoOnly]>>: the
                      \* applyEdit in progress, with the file and result of
                      \* the render it was made in, and whether Undo and Redo
                      \* are all that has been pressed since
    edCompleted,      \* <<>> or <<[file, result]>>: what was displayed when the
                      \* edit that has just completed was started (kept for an
                      \* edit during which only Undo and Redo were pressed)
    edits,            \* edits started
    edIntervals,      \* the edits whose progress interval has not been cleared
    \* ---- environment ----
    now,              \* Date.now()
    cacheDirectory    \* set of [path, data]: files of FileSystem.cacheDirectory

compileVars == <<selectedFiles, fileOrder, outputFormat, isCompiling,
                 compileProgress, compileResult, nextId, shown, offered,
                 compilations>>
mergeVars == <<mfPc, mfFiles, mfFormat, mfBuffers, mfMerged, mfProgress,
               mfLog, mfOutputPath, mfResult, cacheAtStart>>
processVars == <<piPc, piFile, piTarget, piBuffer, piProgress, piOutputPath,
                 piResult, piCalls>>
envVars == <<now, cacheDirectory>>
convertVars == <<cvSelectedFile, cvTargetFormat, isConverting,
                 conversionProgress, conversionResult, intervals, progressInterval, cfPc, cfI,
                 cfArgs, conversions>>
backendVars == <<requests, serverNow, uploadsDir, outputFiles, tempDirs,
                 tempEntries, converterCalls>>
downloadVars == <<downloads, removals>>
wasmVars == <<wasmCall, wasmRet>>
\* the variables of the parts that stand alone
bundleVars == <<bundleCall, bundleEntries, bundlePc>>
historyVars == <<hsLocal, hsRemote, hsCall, hsPc, hsFailed, hsResult, hsCalls>>
editVars == <<edSelectedFile, editResult, undoStack, redoStack, isProcessing,
              processingProgress, edCall, edCompleted, edits, edIntervals>>
laterVars == <<downloadVars, wasmVars, bundleVars, historyVars, editVars>>
\* the variables of the application itself
appVars == <<compileVars, mergeVars, processVars, envVars, convertVars,
             backendVars>>
notWasmVars == <<appVars, downloadVars, bundleVars, historyVars, editVars>>
notBundleVars == <<appVars, downloadVars, wasmVars, historyVars, editVars>>
notHistoryVars == <<appVars, downloadVars, wasmVars, bundleVars, editVars>>
notEditVars == <<appVars, downloadVars, wasmVars, bundleVars, historyVars>>
\* the variables the download route never touches
notDownloadVars == <<compileVars, mergeVars, processVars, envVars, convertVars,
                     wasmVars, bundleVars, historyVars, editVars>>
\* the variables OfflineProcessor and the compile screen never touch
otherVars == <<convertVars, backendVars, laterVars>>
\* the variables the compile screen and mergeFiles never touch
restVars == <<processVars, otherVars>>
vars == <<compileVars, mergeVars, processVars, envVars, convertVars,
          backendVars, laterVars>>

(***************************************************************************)
(* Helpers for JavaScript arrays (0-based indices).                         *)
(***************************************************************************)
RECURSIVE IndexFrom(_, _, _)
IndexFrom(arr, x, i) ==
    IF i > Len(arr) THEN -1
    ELSE IF arr[i] = x THEN i - 1
    ELSE IndexFrom(arr, x, i + 1)

\* Array.prototype.indexOf
IndexOf(arr, x) == IndexFrom(arr, x, 1)

\* arr[i]: undefined outside 0 .. length-1
ArrayGet(arr, i) == IF i >= 0 /\ i < Len(arr) THEN arr[i + 1] ELSE Undefined

\* [a[i], a[j]] = [a[j], a[i]] on a copy: an index outside the array sets a
\* property that no later copy, filter or map of the array carries over
SwapElements(arr, i, j) ==
    [k \in 1..Len(arr) |->
        IF k - 1 = i THEN ArrayGet(arr, j)
        ELSE IF k - 1 = j THEN ArrayGet(arr, i)
        ELSE arr[k]]

(***************************************************************************)
(* Fractions: the percentages passed to onProgress.                         *)
(***************************************************************************)
Pct(n) == <<n, 1>>
FracLE(a, b) == a[1] * b[2] <= b[1] * a[2]

(***************************************************************************)
(* CompileScreen.                                                           *)
(***************************************************************************)
\* the bytes (or pages) the picker's copy of file id holds
Content(id) == [k \in 1..ChunksPerFile |-> [src |-> id, k |-> k]]

\* setFileOrder updater of moveFileUp
moveFileUp(prev, fileId) ==
    LET currentIndex == IndexOf(prev, fileId)
    IN  IF currentIndex > 0
        THEN SwapElements(prev, currentIndex, currentIndex - 1)
        ELSE prev

\* setFileOrder updater of moveFileDown
moveFileDown(prev, fileId) ==
    LET currentIndex == IndexOf(prev, fileId)
    IN  IF currentIndex < Len(prev) - 1
        THEN SwapElements(prev, currentIndex, currentIndex + 1)
        ELSE prev

\* selectedFiles.find(file => file.id === id), as a sequence of 0 or 1 files
FindFile(files, id) ==
    LET hits == SelectSeq(files, LAMBDA f : f.id = id)
    IN  IF hits = <<>> THEN <<>> ELSE <<Head(hits)>>

RECURSIVE OrderedFrom(_, _, _)
OrderedFrom(files, order, i) ==
    IF i > Len(order) THEN <<>>
    ELSE FindFile(files, order[i]) \o OrderedFrom(files, order, i + 1)

\* fileOrder.map(id => selectedFiles.find(...)).filter(Boolean)
getOrderedFiles(files, order) == OrderedFrom(files, order, 1)

\* the set of formats of the chips rendered for a selection
getSupportedOutputFormats(files) ==
    LET uniqueTypes == {files[i].ext : i \in 1..Len(files)}
        fileType == CHOOSE t \in uniqueTypes : TRUE
    IN  IF Len(files) = 0 THEN {}
        ELSE IF Cardinality(uniqueTypes) = 1 /\ fileType \in ImageTypes
            THEN {"pdf", "gif", "zip"}
        ELSE IF Cardinality(uniqueTypes) = 1 /\ fileType \in {"mp3", "wav", "aac"}
            THEN {"mp3", "wav", "aac"}
        ELSE IF Cardinality(uniqueTypes) = 1 /\ fileType \in {"mp4", "mov", "avi", "mkv"}
            THEN {"mp4", "mov", "avi", "mkv"}
        ELSE IF Cardinality(uniqueTypes) = 1 /\ fileType \in {"pdf", "docx", "txt", "pptx"}
            THEN {"pdf", "docx", "txt"}
        ELSE IF Cardinality(uniqueTypes) = 1 /\ fileType \in {"zip", "rar", "7z"}
            THEN {"zip", "rar", "7z"}
        ELSE {"zip", "pdf"}

\* newFiles of handleFileSelection: one file per asset, with fresh ids
NewFiles(exts, first) == [i \in 1..Len(exts) |-> [id |-> first + i - 1, ext |-> exts[i]]]

\* file.uri of a picked file: the picker's copy of the document in the cache
\* directory (copyToCacheDirectory: true), under a name of the picker's own,
\* for which the id stands
PickerUri(file) == [prefix |-> "DocumentPicker/", t |-> file.id, ext |-> ""]

\* the copies the picker has made of the documents picked
PickerCopies(files) ==
    {[path |-> PickerUri(files[i]), data |-> Content(files[i].id)] :
        i \in 1..Len(files)}

\* the picker resolves with assets (their extensions: exts)
handleFileSelection(exts) ==
    /\ nextId + Len(exts) - 1 <= MaxFiles
    /\ LET newFiles == NewFiles(exts, nextId)
       IN  /\ selectedFiles' = selectedFiles \o newFiles
           /\ fileOrder' = fileOrder \o [i \in 1..Len(newFiles) |-> newFiles[i].id]
           /\ cacheDirectory' = cacheDirectory \cup PickerCopies(newFiles)
           /\ cacheAtStart' = cacheDirectory \cup PickerCopies(newFiles)
    /\ nextId' = nextId + Len(exts)
    /\ compileResult' = <<>>
    /\ compileProgress' = Pct(0)
    /\ UNCHANGED <<outputFormat, isCompiling, shown, offered, compilations,
                   mfPc, mfFiles, mfFormat, mfBuffers, mfMerged, mfProgress,
                   mfLog, mfOutputPath, mfResult, now>>
    /\ UNCHANGED restVars

removeFile(fileId) ==
    /\ selectedFiles' = SelectSeq(selectedFiles, LAMBDA file : file.id # fileId)
    /\ fileOrder' = SelectSeq(fileOrder, LAMBDA id : id # fileId)
    /\ UNCHANGED <<outputFormat, isCompiling, compileProgress, compileResult,
                   nextId, shown, offered, compilations, mergeVars, envVars>>
    /\ UNCHANGED restVars

MoveUp(fileId) ==
    /\ fileOrder' = moveFileUp(fileOrder, fileId)
    /\ UNCHANGED <<selectedFiles, outputFormat, isCompiling, compileProgress,
                   compileResult, nextId, shown, offered, compilations, mergeVars, envVars>>
    /\ UNCHANGED restVars

MoveDown(fileId) ==
    /\ fileOrder' = moveFileDown(fileOrder, fileId)
    /\ UNCHANGED <<selectedFiles, outputFormat, isCompiling, compileProgress,
                   compileResult, nextId, shown, offered, compilations, mergeVars, envVars>>
    /\ UNCHANGED restVars

\* a format chip is pressed
setOutputFormat(format) ==
    /\ format \in getSupportedOutputFormats(selectedFiles)
    /\ outputFormat' = format
    /\ UNCHANGED <<selectedFiles, fileOrder, isCompiling, compileProgress,
                   compileResult, nextId, shown, offered, compilations, mergeVars, envVars>>
    /\ UNCHANGED restVars

clearAllFiles ==
    /\ Len(selectedFiles) > 0
    /\ selectedFiles' = <<>>
    /\ fileOrder' = <<>>
    /\ outputFormat' = ""
    /\ compileResult' = <<>>
    /\ compileProgress' = Pct(0)
    /\ UNCHANGED <<isCompiling, nextId, shown, offered, compilations, mergeVars, envVars>>
    /\ UNCHANGED restVars

Tick ==
    /\ now < MaxNow
    /\ now' = now + 1
    /\ UNCHANGED <<compileVars, mergeVars, cacheDirectory>>
    /\ UNCHANGED restVars

(***************************************************************************)
(* OfflineProcessor.mergeFiles.                                             *)
(***************************************************************************)
\* Buffer.from(await readAsStringAsync(file.uri, Base64), 'base64'): the bytes
\* of the file; pdf tells whether PDFDocument.load can parse them
ReadBuffer(file) == [pdf |-> file.ext = "pdf", data |-> Content(file.id)]

RECURSIVE Concat(_)
\* Buffer.concat(buffers)
Concat(buffers) ==
    IF buffers = <<>> THEN <<>>
    ELSE Head(buffers).data \o Concat(Tail(buffers))

RECURSIVE ConcatBackwards(_)
ConcatBackwards(buffers) ==
    IF buffers = <<>> THEN <<>>
    ELSE ConcatBackwards(Tail(buffers)) \o Head(buffers).data

\* mutant of mergeAudioFallback: the buffers end up in the opposite order
mergeAudioBackwards(buffers) ==
    [ok |-> TRUE, data |-> ConcatBackwards(buffers), at |-> 0]

mergeAudioFallback(buffers) == [ok |-> TRUE, data |-> Concat(buffers), at |-> 0]

mergeVideoFallback(buffers) == [ok |-> TRUE, data |-> Concat(buffers), at |-> 0]

RECURSIVE PdfLoop(_, _, _, _)
\* the for loop of mergePdfsFallback: PDFDocument.load throws on the buffers
\* whose index is in unreadable, else the pages are added in page order
PdfLoop(buffers, unreadable, i, mergedPdf) ==
    IF i > Len(buffers) THEN [ok |-> TRUE, data |-> mergedPdf, at |-> 0]
    ELSE IF i \in unreadable THEN [ok |-> FALSE, data |-> <<>>, at |-> i]
    ELSE PdfLoop(buffers, unreadable, i + 1, mergedPdf \o buffers[i].data)

RECURSIVE PdfLoopSkipping(_, _, _, _)
PdfLoopSkipping(buffers, unreadable, i, mergedPdf) ==
    IF i > Len(buffers) THEN [ok |-> TRUE, data |-> mergedPdf, at |-> 0]
    ELSE IF i \in unreadable
    THEN PdfLoopSkipping(buffers, unreadable, i + 1, mergedPdf)
    ELSE PdfLoopSkipping(buffers, unreadable, i + 1, mergedPdf \o buffers[i].data)

\* mutant of mergePdfsFallback: a buffer that does not load is left out
mergePdfsSkipping(buffers, unreadable) ==
    PdfLoopSkipping(buffers, unreadable, 1, <<>>)

mergePdfsFallback(buffers, unreadable) == PdfLoop(buffers, unreadable, 1, <<>>)

\* the switch on outputFormat.toLowerCase()
MergeBranch(format) ==
    IF format = "pdf" THEN "pdf"
    ELSE IF format \in {"mp3", "wav", "aac"} THEN "audio"
    ELSE IF format \in {"mp4", "mov", "avi", "mkv"} THEN "video"
    ELSE "unsupported"

\* mutant of LoopContinues: the loop ends one file early
LoopStopsEarly(i, n) == i < n - 1

\* the condition of the read loop
LoopContinues(i, n) == i < n

\* mutant of ReadProgress: files.length multiplies instead of dividing
ReadProgressMultiplied(i, n) == <<10 + (i + 1) * 30 * n, 1>>

\* 10 + (i + 1) * 30 / files.length
ReadProgress(i, n) == <<10 * n + (i + 1) * 30, n>>

\* the percentage reported when the read loop has ended
ReadsDoneProgress == Pct(70)

\* what follows the read loop when i files have been read: the next read, or
\* onProgress(70) and the switch
AfterRead(i, files, format, progress, log) ==
    IF LoopContinues(i, Len(files))
    THEN [pc |-> "read", progress |-> progress,
          log |-> Append(log, <<"readStart", i>>)]
    ELSE IF MergeBranch(format) = "unsupported"
    THEN [pc |-> "failed", progress |-> Append(progress, ReadsDoneProgress),
          log |-> log]
    ELSE [pc |-> "merge", progress |-> Append(progress, ReadsDoneProgress),
          log |-> Append(log, <<"mergeStart", i>>)]

\* the call mergeFiles(files, outputFormat, onProgress) up to its first await,
\* with the onProgress of handleCompilation: setCompileProgress(progress)
mergeFiles(files, format) ==
    /\ mfPc = "idle"
    /\ LET next == AfterRead(0, files, format, <<Pct(10)>>, <<>>)
       IN  /\ mfFiles' = files
           /\ mfFormat' = format
           /\ mfPc' = next.pc
           /\ mfProgress' = next.progress
           /\ mfLog' = next.log
           /\ compileProgress' = next.progress[Len(next.progress)]
    /\ mfBuffers' = <<>>
    /\ mfMerged' = <<>>
    /\ mfOutputPath' = <<>>
    /\ mfResult' = <<>>
    /\ cacheAtStart' = cacheDirectory

\* handleCompilation up to its await; the Compile button is rendered only while
\* files are selected, a format is chosen and no compilation is running
handleCompilation ==
    /\ ~isCompiling
    /\ Len(selectedFiles) # 0
    /\ outputFormat # ""
    /\ compilations < MaxCompilations
    /\ compilations' = compilations + 1
    /\ isCompiling' = TRUE
    /\ compileResult' = <<>>
    /\ shown' = getOrderedFiles(selectedFiles, fileOrder)
    /\ offered' = getSupportedOutputFormats(selectedFiles)
    /\ mergeFiles(getOrderedFiles(selectedFiles, fileOrder), outputFormat)
    /\ UNCHANGED <<selectedFiles, fileOrder, outputFormat, nextId, envVars>>
    /\ UNCHANGED restVars

\* readAsStringAsync of files[i] resolves
MfReadOk ==
    /\ mfPc = "read"
    /\ LET i == Len(mfBuffers)
           next == AfterRead(i + 1, mfFiles, mfFormat,
                             Append(mfProgress, ReadProgress(i, Len(mfFiles))),
                             Append(mfLog, <<"readEnd", i>>))
       IN  /\ mfBuffers' = Append(mfBuffers, ReadBuffer(mfFiles[i + 1]))
           /\ mfPc' = next.pc
           /\ mfProgress' = next.progress
           /\ mfLog' = next.log
           /\ compileProgress' = next.progress[Len(next.progress)]
    /\ UNCHANGED <<selectedFiles, fileOrder, outputFormat, isCompiling,
                   compileResult, nextId, shown, offered, compilations, mfFiles,
                   mfFormat,
                   mfMerged, mfOutputPath, mfResult, cacheAtStart, envVars>>
    /\ UNCHANGED restVars

\* readAsStringAsync of files[i] rejects
MfReadFail ==
    /\ mfPc = "read"
    /\ mfPc' = "failed"
    /\ mfLog' = Append(mfLog, <<"readFail", Len(mfBuffers)>>)
    /\ UNCHANGED <<compileVars, mfFiles, mfFormat, mfBuffers, mfMerged,
                   mfProgress, mfOutputPath, mfResult, cacheAtStart, envVars>>
    /\ UNCHANGED restVars

\* the merger the switch selected, run on the buffers
RunMerger(format, buffers, unreadable) ==
    IF MergeBranch(format) = "pdf" THEN mergePdfsFallback(buffers, unreadable)
    ELSE IF MergeBranch(format) = "audio" THEN mergeAudioFallback(buffers)
    ELSE mergeVideoFallback(buffers)

\* an output path that is the URI of the first input
MergedPathOverInput(t, format) == PickerUri(mfFiles[1])

\* `${cacheDirectory}merged_${Date.now()}.${outputFormat}`
MergedPath(t, format) == [prefix |-> "merged_", t |-> t, ext |-> format]

\* the merger settles; bytes that are not a PDF never load as one
MfMerge ==
    /\ mfPc = "merge"
    /\ \E unreadable \in SUBSET (1..Len(mfBuffers)) :
        /\ \A i \in 1..Len(mfBuffers) : ~mfBuffers[i].pdf => i \in unreadable
        /\ LET merged == RunMerger(mfFormat, mfBuffers, unreadable)
           IN  IF merged.ok
               THEN /\ mfMerged' = merged.data
                    /\ mfProgress' = Append(mfProgress, Pct(90))
                    /\ compileProgress' = Pct(90)
                    /\ mfOutputPath' = <<MergedPath(now, mfFormat)>>
                    /\ mfLog' = mfLog \o <<(<<"mergeEnd", Len(mfBuffers)>>),
                                           (<<"writeStart", Len(mfBuffers)>>)>>
                    /\ mfPc' = "write"
               ELSE /\ mfPc' = "failed"
                    /\ mfLog' = Append(mfLog, <<"mergeFail", merged.at>>)
                    /\ UNCHANGED <<mfMerged, mfProgress, compileProgress,
                                   mfOutputPath>>
    /\ UNCHANGED <<selectedFiles, fileOrder, outputFormat, isCompiling,
                   compileResult, nextId, shown, offered, compilations, mfFiles,
                   mfFormat,
                   mfBuffers, mfResult, cacheAtStart, envVars>>
    /\ UNCHANGED restVars

\* FileSystem.writeAsStringAsync(path, data): the file at path holds data
WriteFile(dir, path, data) ==
    {f \in dir : f.path # path} \cup {[path |-> path, data |-> data]}

\* writeAsStringAsync resolves: onProgress(100) and the return
MfWriteOk ==
    /\ mfPc = "write"
    /\ cacheDirectory' = WriteFile(cacheDirectory, mfOutputPath[1], mfMerged)
    /\ mfProgress' = Append(mfProgress, Pct(100))
    /\ compileProgress' = Pct(100)
    /\ mfLog' = Append(mfLog, <<"writeEnd", Len(mfBuffers)>>)
    /\ mfResult' = <<[outputPath |-> mfOutputPath[1],
                      totalSize |-> Len(mfMerged),
                      fileCount |-> Len(mfFiles)]>>
    /\ mfPc' = "done"
    /\ UNCHANGED <<selectedFiles, fileOrder, outputFormat, isCompiling,
                   compileResult, nextId, shown, offered, compilations, mfFiles,
                   mfFormat,
                   mfBuffers, mfMerged, mfOutputPath, cacheAtStart, now>>
    /\ UNCHANGED restVars

\* writeAsStringAsync rejects
MfWriteFail ==
    /\ mfPc = "write"
    /\ mfPc' = "failed"
    /\ mfLog' = Append(mfLog, <<"writeFail", Len(mfBuffers)>>)
    /\ UNCHANGED <<compileVars, mfFiles, mfFormat, mfBuffers, mfMerged,
                   mfProgress, mfOutputPath, mfResult, cacheAtStart, envVars>>
    /\ UNCHANGED restVars

\* handleCompilation after its await: setCompileResult(result) or the catch,
\* then the finally
CompilationSettled ==
    /\ mfPc \in {"done", "failed"}
    /\ compileResult' = IF mfPc = "done" THEN mfResult ELSE compileResult
    /\ isCompiling' = FALSE
    /\ mfPc' = "idle"
    /\ mfFiles' = <<>>
    /\ mfFormat' = ""
    /\ mfBuffers' = <<>>
    /\ mfMerged' = <<>>
    /\ mfProgress' = <<>>
    /\ mfLog' = <<>>
    /\ mfOutputPath' = <<>>
    /\ mfResult' = <<>>
    /\ cacheAtStart' = cacheDirectory
    /\ shown' = <<>>
    /\ offered' = {}
    /\ UNCHANGED <<selectedFiles, fileOrder, outputFormat, compileProgress,
                   nextId, compilations, envVars>>
    /\ UNCHANGED restVars

(***************************************************************************)
(* The compile screen with its merge job.                                   *)
(***************************************************************************)
RECURSIVE SeqsUpTo(_, _)
\* the non-empty sequences over S of length at most n
SeqsUpTo(S, n) ==
    IF n = 0 THEN {}
    ELSE LET shorter == SeqsUpTo(S, n - 1)
         IN  {<<x>> : x \in S} \cup shorter
                \cup {Append(s, x) : s \in shorter, x \in S}

\* no WebAssembly function is being called
NoCall == [fn |-> "none"]
NoReturn == [ret |-> 0, out |-> <<>>, trap |-> FALSE]

\* the history tables before the first insert, and the empty argument and
\* result of a history operation
EmptyTable == [rows |-> <<>>, nextId |-> 1]
NoArg == [name |-> "", id |-> 0]
NoResult == [kind |-> "none", id |-> 0, rows |-> <<>>, ok |-> FALSE]

\* a request that has not arrived
NoRequest ==
    [pc |-> "none", ext |-> "", target |-> "", size |-> 0, tempDir |-> <<>>,
     outSize |-> 0, status |-> 0, ratio |-> [kind |-> "none", hundredths |-> 0],
     rejected |-> FALSE]

Init ==
    /\ selectedFiles = <<>>
    /\ fileOrder = <<>>
    /\ outputFormat = ""
    /\ isCompiling = FALSE
    /\ compileProgress = Pct(0)
    /\ compileResult = <<>>
    /\ nextId = 1
    /\ shown = <<>>
    /\ offered = {}
    /\ compilations = 0
    /\ mfPc = "idle"
    /\ mfFiles = <<>>
    /\ mfFormat = ""
    /\ mfBuffers = <<>>
    /\ mfMerged = <<>>
    /\ mfProgress = <<>>
    /\ mfLog = <<>>
    /\ mfOutputPath = <<>>
    /\ mfResult = <<>>
    /\ cacheAtStart = {}
    /\ piPc = "idle"
    /\ piFile = <<>>
    /\ piTarget = ""
    /\ piBuffer = <<>>
    /\ piProgress = <<>>
    /\ piOutputPath = <<>>
    /\ piResult = <<>>
    /\ piCalls = 0
    /\ now = 0
    /\ cacheDirectory = {}
    /\ cvSelectedFile = <<>>
    /\ cvTargetFormat = ""
    /\ isConverting = FALSE
    /\ conversionProgress = 0
    /\ conversionResult = <<>>
    /\ intervals = {}
    /\ progressInterval = <<>>
    /\ cfPc = "idle"
    /\ cfI = 0
    /\ conversions = 0
    /\ cfArgs = <<>>
    /\ requests = [r \in 1..MaxRequests |-> NoRequest]
    /\ serverNow = 0
    /\ uploadsDir = {}
    /\ outputFiles = {}
    /\ downloads = <<>>
    /\ removals = {}
    /\ tempDirs = {}
    /\ tempEntries = {}
    /\ converterCalls = {}
    /\ wasmCall = NoCall
    /\ wasmRet = NoReturn
    /\ bundleCall = [filePaths |-> <<>>, format |-> "", existing |-> {}]
    /\ bundleEntries = <<>>
    /\ bundlePc = "none"
    /\ hsLocal = EmptyTable
    /\ hsRemote = EmptyTable
    /\ hsCall = [op |-> "none", arg |-> NoArg, enabled |-> FALSE]
    /\ hsPc = "idle"
    /\ hsFailed = FALSE
    /\ hsResult = NoResult
    /\ hsCalls = 0
    /\ edSelectedFile = <<>>
    /\ editResult = <<>>
    /\ undoStack = <<>>
    /\ redoStack = <<>>
    /\ isProcessing = FALSE
    /\ processingProgress = 0
    /\ edCall = <<>>
    /\ edCompleted = <<>>
    /\ edits = 0
    /\ edIntervals = {}

\* what the user does on the screen; this model leaves the screen alone while a
\* merge is in flight (mergeFiles works on the arguments it was called with)
PickFiles ==
    /\ ~isCompiling
    /\ \E exts \in SeqsUpTo(PickExts, MaxPick) : handleFileSelection(exts)

PressRemove ==
    /\ ~isCompiling
    /\ \E id \in 1..MaxFiles : id < nextId /\ removeFile(id)

PressUp ==
    /\ ~isCompiling
    /\ \E id \in 1..MaxFiles : id < nextId /\ MoveUp(id)

PressDown ==
    /\ ~isCompiling
    /\ \E id \in 1..MaxFiles : id < nextId /\ MoveDown(id)

PressFormat ==
    /\ ~isCompiling
    /\ \E format \in PressedFormats : setOutputFormat(format)

PressClearAll == ~isCompiling /\ clearAllFiles

\* Clear All stays on the screen during a compilation: nothing else on the
\* screen stands for a cancel
PressClearAllWhileCompiling == isCompiling /\ clearAllFiles

Next ==
    \/ PickFiles
    \/ PressRemove
    \/ PressUp
    \/ PressDown
    \/ PressFormat
    \/ PressClearAll
    \/ PressClearAllWhileCompiling
    \/ handleCompilation
    \/ MfReadOk
    \/ MfReadFail
    \/ MfMerge
    \/ MfWriteOk
    \/ MfWriteFail
    \/ CompilationSettled

Spec == Init /\ [][Next]_vars

(***************************************************************************)
(* OfflineProcessor.processImage.                                           *)
(***************************************************************************)
\* the nearest integer to a / b (b > 0), halves away from zero
RoundDiv(a, b) ==
    IF a >= 0 THEN (2 * a + b) \div (2 * b)
    ELSE -((2 * (-a) + b) \div (2 * b))

\* ((originalSize - compressedSize) / originalSize * 100).toFixed(2): a number
\* of hundredths, or what IEEE division by zero gives
compressionRatio(originalSize, compressedSize) ==
    IF originalSize # 0
    THEN [kind |-> "number",
          hundredths |-> RoundDiv((originalSize - compressedSize) * 10000, originalSize)]
    ELSE IF compressedSize = 0
    THEN [kind |-> "NaN", hundredths |-> 0]
    ELSE [kind |-> "-Infinity", hundredths |-> 0]

\* Buffer.from(fileData, 'base64'): file.size bytes
FileBytes(file) == [k \in 1..file.size |-> [src |-> file.id, k |-> k]]

\* the switch on targetFormat.toLowerCase() of processImage
ImageTargetSupported(targetFormat) == targetFormat \in {"jpg", "jpeg", "png", "webp"}

\* convertToJpeg, convertToPng, convertToWebp: the buffer, unchanged
convertImage(buffer) == buffer

\* `${cacheDirectory}processed_${Date.now()}.${targetFormat}`
ProcessedPath(t, format) == [prefix |-> "processed_", t |-> t, ext |-> format]

\* processImage(file, targetFormat, compressionLevel, onProgress) up to its
\* first await
processImage(file, targetFormat) ==
    /\ piPc = "idle"
    /\ piCalls < MaxProcessCalls
    /\ piCalls' = piCalls + 1
    /\ piFile' = <<file>>
    /\ piTarget' = targetFormat
    /\ piProgress' = <<Pct(10)>>
    /\ piPc' = "read"
    /\ piBuffer' = <<>>
    /\ piOutputPath' = <<>>
    /\ piResult' = <<>>
    /\ UNCHANGED <<compileVars, mergeVars, envVars, otherVars>>

\* readAsStringAsync resolves: the buffer, then the switch
PiReadOk ==
    /\ piPc = "read"
    /\ piBuffer' = <<FileBytes(piFile[1])>>
    /\ piProgress' = piProgress \o <<Pct(30), Pct(50)>>
    /\ piPc' = IF ImageTargetSupported(piTarget) THEN "convert" ELSE "failed"
    /\ UNCHANGED <<piFile, piTarget, piOutputPath, piResult, piCalls>>
    /\ UNCHANGED <<compileVars, mergeVars, envVars, otherVars>>

\* readAsStringAsync rejects
PiReadFail ==
    /\ piPc = "read"
    /\ piPc' = "failed"
    /\ UNCHANGED <<piFile, piTarget, piBuffer, piProgress, piOutputPath,
                   piResult, piCalls>>
    /\ UNCHANGED <<compileVars, mergeVars, envVars, otherVars>>

\* the conversion resolves
PiConvert ==
    /\ piPc = "convert"
    /\ piBuffer' = <<convertImage(piBuffer[1])>>
    /\ piProgress' = Append(piProgress, Pct(80))
    /\ piOutputPath' = <<ProcessedPath(now, piTarget)>>
    /\ piPc' = "write"
    /\ UNCHANGED <<piFile, piTarget, piResult, piCalls>>
    /\ UNCHANGED <<compileVars, mergeVars, envVars, otherVars>>

\* writeAsStringAsync resolves: onProgress(100) and the return
PiWriteOk ==
    /\ piPc = "write"
    /\ cacheDirectory' = WriteFile(cacheDirectory, piOutputPath[1], piBuffer[1])
    /\ piProgress' = Append(piProgress, Pct(100))
    /\ piResult' = <<[outputPath |-> piOutputPath[1],
                      originalSize |-> piFile[1].size,
                      compressedSize |-> Len(piBuffer[1]),
                      compressionRatio |->
                          compressionRatio(piFile[1].size, Len(piBuffer[1]))]>>
    /\ piPc' = "done"
    /\ UNCHANGED <<piFile, piTarget, piBuffer, piOutputPath, piCalls, now>>
    /\ UNCHANGED <<compileVars, mergeVars, otherVars>>

\* writeAsStringAsync rejects
PiWriteFail ==
    /\ piPc = "write"
    /\ piPc' = "failed"
    /\ UNCHANGED <<piFile, piTarget, piBuffer, piProgress, piOutputPath,
                   piResult, piCalls>>
    /\ UNCHANGED <<compileVars, mergeVars, envVars, otherVars>>

\* the caller has taken the result, or the error
PiSettled ==
    /\ piPc \in {"done", "failed"}
    /\ piPc' = "idle"
    /\ piFile' = <<>>
    /\ piTarget' = ""
    /\ piBuffer' = <<>>
    /\ piProgress' = <<>>
    /\ piOutputPath' = <<>>
    /\ piResult' = <<>>
    /\ UNCHANGED piCalls
    /\ UNCHANGED <<compileVars, mergeVars, envVars, otherVars>>

(***************************************************************************)
(* OfflineProcessor called on any arguments, one call at a time.            *)
(***************************************************************************)
\* the target formats processImage is called with in this model
ImageTargets == {"jpg", "gif"}

\* the extensions of the files mergeFiles is called on in this model
MergeExts == {"mp3", "pdf"}

\* the formats mergeFiles is called with in this model
MergeFormats == {"pdf", "mp3", "zip"}

\* the clock advances between two calls (a call reads it once, so only its
\* value at that read matters)
ClockAdvances == mfPc = "idle" /\ piPc = "idle" /\ Tick

\* mergeFiles called the way handleCompilation calls it, on any list of files
CallMergeFiles ==
    /\ piPc = "idle"
    /\ ~isCompiling
    /\ compilations < MaxMergeCalls
    /\ \E exts \in SeqsUpTo(MergeExts, MaxFiles) : \E format \in MergeFormats :
           mergeFiles(NewFiles(exts, 1), format)
    /\ compilations' = compilations + 1
    /\ isCompiling' = TRUE
    /\ compileResult' = <<>>
    /\ UNCHANGED <<selectedFiles, fileOrder, outputFormat, nextId, shown,
                   offered, envVars>>
    /\ UNCHANGED restVars

CallProcessImage ==
    /\ mfPc = "idle"
    /\ \E size \in 0..MaxImageSize : \E targetFormat \in ImageTargets :
           processImage([id |-> 0, ext |-> "jpg", size |-> size], targetFormat)

NextOffline ==
    \/ ClockAdvances
    \/ CallMergeFiles
    \/ MfReadOk
    \/ MfReadFail
    \/ MfMerge
    \/ MfWriteOk
    \/ MfWriteFail
    \/ CompilationSettled
    \/ CallProcessImage
    \/ PiReadOk
    \/ PiReadFail
    \/ PiConvert
    \/ PiWriteOk
    \/ PiWriteFail
    \/ PiSettled

SpecOffline == Init /\ [][NextOffline]_vars

(***************************************************************************)
(* ConvertScreen with ConversionService.convertFile.  CompressScreen's      *)
(* handleCompression with CompressionService.compressFile is the same code  *)
(* with other names.                                                        *)
(***************************************************************************)
\* extensions of the files chosen on the convert screen in this model
ConvertExts == {"jpg", "zip"}

\* getSupportedFormats: formatMap[extension] || []
formatMap(extension) ==
    CASE extension \in {"jpg", "jpeg"} -> {"png", "webp"}
      [] extension = "png" -> {"jpg", "webp"}
      [] extension = "webp" -> {"jpg", "png"}
      [] extension = "gif" -> {"jpg", "png", "webp"}
      [] extension = "mp3" -> {"wav", "aac"}
      [] extension = "wav" -> {"mp3", "aac"}
      [] extension = "aac" -> {"mp3", "wav"}
      [] extension = "mp4" -> {"mov", "avi", "mkv"}
      [] extension = "mov" -> {"mp4", "avi", "mkv"}
      [] extension = "avi" -> {"mp4", "mov", "mkv"}
      [] extension = "mkv" -> {"mp4", "mov", "avi"}
      [] extension = "pdf" -> {"docx", "txt"}
      [] extension = "docx" -> {"pdf", "txt"}
      [] extension = "txt" -> {"pdf", "docx"}
      [] extension = "pptx" -> {"pdf"}
      [] extension = "zip" -> {"rar", "7z"}
      [] extension = "rar" -> {"zip", "7z"}
      [] extension = "7z" -> {"zip", "rar"}
      [] OTHER -> {}

getSupportedFormats ==
    IF cvSelectedFile = <<>> THEN {} ELSE formatMap(cvSelectedFile[1].ext)

\* Choose File (shown while no file is selected)
ChooseFile ==
    /\ cvSelectedFile = <<>>
    /\ \E ext \in ConvertExts : cvSelectedFile' = <<[ext |-> ext]>>
    /\ conversionResult' = <<>>
    /\ conversionProgress' = 0
    /\ UNCHANGED <<cvTargetFormat, isConverting, intervals, progressInterval,
                   cfPc, cfI, conversions>>
    /\ UNCHANGED <<cfArgs, compileVars, mergeVars, processVars, envVars,
                   backendVars, laterVars>>

\* a format chip is pressed (the chips stay on the screen during a conversion)
handleFormatSelection ==
    /\ \E format \in getSupportedFormats : cvTargetFormat' = format
    /\ conversionResult' = <<>>
    /\ UNCHANGED <<cvSelectedFile, isConverting, conversionProgress, intervals,
                   progressInterval, cfPc, cfI, conversions>>
    /\ UNCHANGED <<cfArgs, compileVars, mergeVars, processVars, envVars,
                   backendVars, laterVars>>

\* Clear Selection (the button stays on the screen during a conversion)
clearSelection ==
    /\ cvSelectedFile # <<>>
    /\ cvSelectedFile' = <<>>
    /\ cvTargetFormat' = ""
    /\ conversionResult' = <<>>
    /\ conversionProgress' = 0
    /\ UNCHANGED <<isConverting, intervals, progressInterval, cfPc, cfI,
                   conversions>>
    /\ UNCHANGED <<cfArgs, compileVars, mergeVars, processVars, envVars,
                   backendVars, laterVars>>

\* Convert File is pressed: handleConversion up to the await of convertFile,
\* which has sent its request
handleConversion ==
    /\ cvSelectedFile # <<>>
    /\ cvTargetFormat # ""
    /\ ~isConverting
    /\ conversions < MaxConversions
    /\ conversions' = conversions + 1
    /\ isConverting' = TRUE
    /\ conversionProgress' = 0
    /\ conversionResult' = <<>>
    /\ intervals' = intervals \cup {conversions + 1}
    /\ progressInterval' = <<conversions + 1>>
    /\ cfPc' = "fetch"
    /\ cfI' = 0
    /\ cfArgs' = <<[file |-> cvSelectedFile[1], targetFormat |-> cvTargetFormat]>>
    /\ UNCHANGED <<cvSelectedFile, cvTargetFormat>>
    /\ UNCHANGED <<compileVars, mergeVars, processVars, envVars, backendVars,
                   laterVars>>

\* a 200 ms timer fires: setConversionProgress(prev => ...)
IntervalFires ==
    \E id \in intervals :
        /\ IF conversionProgress >= 90
           THEN /\ intervals' = intervals \ {id}
                /\ conversionProgress' = 90
           ELSE /\ conversionProgress' = conversionProgress + 10
                /\ UNCHANGED intervals
        /\ UNCHANGED <<cvSelectedFile, cvTargetFormat, isConverting,
                       conversionResult, progressInterval, cfPc, cfI, conversions>>
        /\ UNCHANGED <<cfArgs, compileVars, mergeVars, processVars, envVars,
                       backendVars, laterVars>>

\* the response is ok and its body is parsed: the loop of convertFile begins
FetchOk ==
    /\ cfPc = "fetch"
    /\ cfPc' = "loop"
    /\ cfI' = 0
    /\ UNCHANGED <<cvSelectedFile, cvTargetFormat, isConverting,
                   conversionProgress, conversionResult, intervals,
                   progressInterval, conversions>>
    /\ UNCHANGED <<cfArgs, compileVars, mergeVars, processVars, envVars,
                   backendVars, laterVars>>

\* fetch rejects, or the response is not ok: convertFile throws, and the catch
\* and the finally of handleConversion run
FetchFails ==
    /\ cfPc = "fetch"
    /\ cfPc' = "idle"
    /\ isConverting' = FALSE
    /\ progressInterval' = <<>>
    /\ UNCHANGED <<cvSelectedFile, cvTargetFormat, conversionProgress,
                   conversionResult, intervals, cfI, conversions>>
    /\ UNCHANGED <<cfArgs, compileVars, mergeVars, processVars, envVars,
                   backendVars, laterVars>>

\* one turn of for (let i = 0; i <= 100; i += 10): onProgress(i), then the wait
OnProgress ==
    /\ cfPc = "loop"
    /\ cfI <= 100
    /\ conversionProgress' = cfI
    /\ cfI' = cfI + 10
    /\ UNCHANGED <<cvSelectedFile, cvTargetFormat, isConverting, conversionResult,
                   intervals, progressInterval, cfPc, conversions>>
    /\ UNCHANGED <<cfArgs, compileVars, mergeVars, processVars, envVars,
                   backendVars, laterVars>>

\* convertFile returns: clearInterval, 100, the result, and the finally
ConversionReturns ==
    /\ cfPc = "loop"
    /\ cfI > 100
    /\ intervals' = intervals \ {progressInterval[1]}
    /\ conversionProgress' = 100
    /\ conversionResult' = <<[originalFile |-> cfArgs[1].file,
                               targetFormat |-> cfArgs[1].targetFormat]>>
    /\ isConverting' = FALSE
    /\ progressInterval' = <<>>
    /\ cfPc' = "idle"
    /\ UNCHANGED <<cvSelectedFile, cvTargetFormat, cfI, conversions>>
    /\ UNCHANGED <<cfArgs, compileVars, mergeVars, processVars, envVars,
                   backendVars, laterVars>>

NextConvert ==
    \/ ChooseFile
    \/ handleFormatSelection
    \/ clearSelection
    \/ handleConversion
    \/ IntervalFires
    \/ FetchOk
    \/ FetchFails
    \/ OnProgress
    \/ ConversionReturns

SpecConvert == Init /\ [][NextConvert]_vars

(***************************************************************************)
(* Backend server: POST /api/convert with imageConverter and                *)
(* archiveConverter.                                                        *)
(***************************************************************************)
Requests == 1..MaxRequests

\* the extensions of the uploads, and the targetFormat fields, sent to the
\* server in this model
UploadExts == {"jpg", "zip", "exe"}
TargetFormats == {"png", "gif", "zip", "mp3", "rar"}

\* ConversionService.isConversionSupported: conversionMap[fromFormat]
conversionMap(fromFormat) ==
    CASE fromFormat \in {"jpg", "jpeg"} -> {"png", "webp"}
      [] fromFormat = "png" -> {"jpg", "webp"}
      [] fromFormat = "webp" -> {"jpg", "png"}
      [] fromFormat = "gif" -> {"jpg", "png", "webp"}
      [] fromFormat = "mp3" -> {"wav", "aac"}
      [] fromFormat = "wav" -> {"mp3", "aac"}
      [] fromFormat = "aac" -> {"mp3", "wav"}
      [] fromFormat = "mp4" -> {"mov", "avi", "mkv"}
      [] fromFormat = "mov" -> {"mp4", "avi", "mkv"}
      [] fromFormat = "avi" -> {"mp4", "mov", "mkv"}
      [] fromFormat = "mkv" -> {"mp4", "mov", "avi"}
      [] fromFormat = "pdf" -> {"docx", "txt"}
      [] fromFormat = "docx" -> {"pdf", "txt"}
      [] fromFormat = "txt" -> {"pdf", "docx"}
      [] fromFormat = "pptx" -> {"pdf"}
      [] fromFormat = "zip" -> {"rar", "7z"}
      [] fromFormat = "rar" -> {"zip", "7z"}
      [] fromFormat = "7z" -> {"zip", "rar"}
      [] OTHER -> {}

isConversionSupported(fromFormat, toFormat) == toFormat \in conversionMap(fromFormat)

\* the switch (fileExtension) of POST /api/convert
ConverterFor(fileExtension) ==
    CASE fileExtension \in {"jpg", "jpeg", "png", "webp", "gif"} -> "imageConverter"
      [] fileExtension \in {"mp3", "wav", "aac"} -> "audioConverter"
      [] fileExtension \in {"mp4", "mov", "avi", "mkv"} -> "videoConverter"
      [] fileExtension \in {"pdf", "docx", "txt", "pptx"} -> "documentConverter"
      [] fileExtension \in {"zip", "rar", "7z"} -> "archiveConverter"
      [] OTHER -> "none"

\* the clock of the server advances
ServerTick ==
    /\ serverNow < MaxNow
    /\ serverNow' = serverNow + 1
    /\ UNCHANGED <<requests, uploadsDir, outputFiles, tempDirs, tempEntries,
                   converterCalls>>
    /\ UNCHANGED <<compileVars, mergeVars, processVars, envVars, convertVars,
                   laterVars>>

\* the handler of request r throws, or answers with an error status
Answered(r, status) == [requests EXCEPT ![r].pc = "responded", ![r].status = status]

\* the route or the converter of request r has no branch for the file
\* extension or for the target format: the error of that default branch is
\* what the handler answers with
Rejected(r, status) ==
    [requests EXCEPT ![r].pc = "responded", ![r].status = status,
                     ![r].rejected = TRUE]

\* the handler of request r goes on to its next await
Goes(r, pc) == [requests EXCEPT ![r].pc = pc]

\* outputs/<uuid>-<name>.<targetFormat> written: the file of request r
Written(r, size, entries) ==
    {f \in outputFiles : f.path # r}
        \cup {[path |-> r, size |-> size, entries |-> entries]}

\* the compressionLevel fields of the request bodies; "undefined" stands for a
\* body without the field
SentLevels == {"undefined", "low", "ultra"}

\* const { compressionLevel = 'medium' } = req.body
BodyCompressionLevel(level) == IF level = "undefined" THEN "medium" ELSE level

\* app.post('/api/convert'): multer has stored the upload; the handler runs up
\* to the first await of the converter it routes to
PostConvert(r, ext, target, size, level) ==
    /\ requests[r].pc = "none"
    /\ \A q \in 1..(r - 1) : requests[q].pc # "none"
    /\ uploadsDir' = uploadsDir \cup {r}
    /\ LET arrived == [requests EXCEPT ![r].ext = ext, ![r].target = target,
                                       ![r].size = size]
       IN  IF ConverterFor(ext) = "none"
           THEN /\ requests' = [arrived EXCEPT ![r].pc = "responded",
                                               ![r].status = 400,
                                               ![r].rejected = TRUE]
                /\ UNCHANGED converterCalls
           ELSE /\ requests' = [arrived EXCEPT ![r].pc = "stat"]
                /\ converterCalls' = converterCalls \cup
                       {[converter |-> ConverterFor(ext), ext |-> ext,
                         target |-> target,
                         compressionLevel |-> BodyCompressionLevel(level)]}
    /\ UNCHANGED <<serverNow, outputFiles, tempDirs, tempEntries>>
    /\ UNCHANGED <<compileVars, mergeVars, processVars, envVars, convertVars,
                   laterVars>>

Receive ==
    \E r \in Requests : \E ext \in UploadExts : \E target \in TargetFormats :
        \E size \in 1..MaxSize : \E level \in SentLevels :
            PostConvert(r, ext, target, size, level)

\* imageConverter.convert after fs.stat: the switch on targetFormat
ImageStat ==
    \E r \in Requests :
        /\ requests[r].pc = "stat"
        /\ ConverterFor(requests[r].ext) = "imageConverter"
        /\ requests' = IF requests[r].target \in {"jpg", "jpeg", "png", "webp"}
                       THEN Goes(r, "toFile")
                       ELSE Rejected(r, 500)
        /\ UNCHANGED <<serverNow, uploadsDir, outputFiles, tempDirs, tempEntries,
                       converterCalls>>
        /\ UNCHANGED <<compileVars, mergeVars, processVars, envVars, convertVars,
                   laterVars>>

\* sharp's toFile resolves, having written a file of some size
ImageToFile ==
    \E r \in Requests : \E size \in 1..MaxSize :
        /\ requests[r].pc = "toFile"
        /\ outputFiles' = Written(r, size, {})
        /\ requests' = [requests EXCEPT ![r].pc = "respond", ![r].outSize = size]
        /\ UNCHANGED <<serverNow, uploadsDir, tempDirs, tempEntries, converterCalls>>
        /\ UNCHANGED <<compileVars, mergeVars, processVars, envVars, convertVars,
                   laterVars>>

\* sharp's toFile rejects
ImageToFileFail ==
    \E r \in Requests :
        /\ requests[r].pc = "toFile"
        /\ requests' = Answered(r, 500)
        /\ UNCHANGED <<serverNow, uploadsDir, outputFiles, tempDirs, tempEntries,
                       converterCalls>>
        /\ UNCHANGED <<compileVars, mergeVars, processVars, envVars, convertVars,
                   laterVars>>

\* archiveConverter.convert after fs.stat: tempDir = temp_${Date.now()}
ArchiveStat ==
    \E r \in Requests :
        /\ requests[r].pc = "stat"
        /\ ConverterFor(requests[r].ext) = "archiveConverter"
        /\ requests' = [requests EXCEPT ![r].pc = "ensureDir",
                                        ![r].tempDir = <<serverNow>>]
        /\ UNCHANGED <<serverNow, uploadsDir, outputFiles, tempDirs, tempEntries,
                       converterCalls>>
        /\ UNCHANGED <<compileVars, mergeVars, processVars, envVars, convertVars,
                   laterVars>>

\* fs.ensureDir(tempDir) resolves; extractArchive begins, or rejects at once
ArchiveEnsureDir ==
    \E r \in Requests :
        /\ requests[r].pc = "ensureDir"
        /\ tempDirs' = tempDirs \cup {requests[r].tempDir[1]}
        /\ requests' = IF requests[r].ext = "zip"
                       THEN Goes(r, "extract")
                       ELSE Rejected(r, 500)
        /\ UNCHANGED <<serverNow, uploadsDir, outputFiles, tempEntries,
                       converterCalls>>
        /\ UNCHANGED <<compileVars, mergeVars, processVars, envVars, convertVars,
                   laterVars>>

\* the extraction closes; createArchive opens the output and switches on format
ArchiveExtract ==
    \E r \in Requests :
        /\ requests[r].pc = "extract"
        /\ tempDirs' = tempDirs \cup {requests[r].tempDir[1]}
        /\ tempEntries' = tempEntries \cup
               {[dir |-> requests[r].tempDir[1], from |-> r]}
        /\ outputFiles' = Written(r, 0, {})
        /\ requests' = IF requests[r].target \in {"zip", "tar"}
                       THEN Goes(r, "archive")
                       ELSE Rejected(r, 500)
        /\ UNCHANGED <<serverNow, uploadsDir, converterCalls>>
        /\ UNCHANGED <<compileVars, mergeVars, processVars, envVars, convertVars,
                   laterVars>>

\* the extraction fails
ArchiveExtractFail ==
    \E r \in Requests :
        /\ requests[r].pc = "extract"
        /\ requests' = Answered(r, 500)
        /\ UNCHANGED <<serverNow, uploadsDir, outputFiles, tempDirs, tempEntries,
                       converterCalls>>
        /\ UNCHANGED <<compileVars, mergeVars, processVars, envVars, convertVars,
                   laterVars>>

\* archive.directory(inputDir) and finalize: what the directory holds is
\* archived, and the output closes
ArchiveCreate ==
    \E r \in Requests : \E size \in 1..MaxSize :
        /\ requests[r].pc = "archive"
        /\ outputFiles' = Written(r, size,
               {e.from : e \in {x \in tempEntries : x.dir = requests[r].tempDir[1]}})
        /\ requests' = [requests EXCEPT ![r].pc = "remove", ![r].outSize = size]
        /\ UNCHANGED <<serverNow, uploadsDir, tempDirs, tempEntries, converterCalls>>
        /\ UNCHANGED <<compileVars, mergeVars, processVars, envVars, convertVars,
                   laterVars>>

\* the archiver reports an error
ArchiveCreateFail ==
    \E r \in Requests :
        /\ requests[r].pc = "archive"
        /\ requests' = Answered(r, 500)
        /\ UNCHANGED <<serverNow, uploadsDir, outputFiles, tempDirs, tempEntries,
                       converterCalls>>
        /\ UNCHANGED <<compileVars, mergeVars, processVars, envVars, convertVars,
                   laterVars>>

\* fs.remove(tempDir)
ArchiveRemoveTemp ==
    \E r \in Requests :
        /\ requests[r].pc = "remove"
        /\ tempDirs' = tempDirs \ {requests[r].tempDir[1]}
        /\ tempEntries' = {e \in tempEntries : e.dir # requests[r].tempDir[1]}
        /\ requests' = Goes(r, "respond")
        /\ UNCHANGED <<serverNow, uploadsDir, outputFiles, converterCalls>>
        /\ UNCHANGED <<compileVars, mergeVars, processVars, envVars, convertVars,
                   laterVars>>

\* the converter stats the output and returns; the route removes the upload and
\* answers with the result
Respond ==
    \E r \in Requests :
        /\ requests[r].pc = "respond"
        /\ uploadsDir' = uploadsDir \ {r}
        /\ requests' = [requests EXCEPT
               ![r].pc = "responded",
               ![r].status = 200,
               ![r].ratio = compressionRatio(requests[r].size, requests[r].outSize)]
        /\ UNCHANGED <<serverNow, outputFiles, tempDirs, tempEntries, converterCalls>>
        /\ UNCHANGED <<compileVars, mergeVars, processVars, envVars, convertVars,
                   laterVars>>

\* originalname of the upload of request r: the uploads of this model are
\* all named upload.<ext>
OriginalName(r) == [name |-> "upload", ext |-> requests[r].ext]

\* `${path.parse(originalName).name}.${targetFormat}`
outputFileName(r) == [name |-> OriginalName(r).name, ext |-> requests[r].target]

\* a file name inside outputs/: a prefix, <<>> or <<uuid>> followed by '-', and
\* the rest. `${uuidv4()}-${outputFileName}` is the name the file of request r
\* is written under (the request number stands for its uuid)
OutputName(r) == [uuid |-> <<r>>, fileName |-> outputFileName(r)]

\* fileName of the response to request r
ResponseFileName(r) == [uuid |-> <<>>, fileName |-> outputFileName(r)]

\* ConversionService.convertFile: the last segment of
\* `${BASE_URL}/download/${result.fileName}`
downloadUrl(result) == result.fileName

\* the results the clients have got: the bodies of the responses with status
\* 200; outputPath is result.outputPath
Results ==
    {[fileName |-> ResponseFileName(r), outputPath |-> OutputName(r), from |-> r] :
        r \in {q \in Requests : requests[q].pc = "responded" /\ requests[q].status = 200}}

\* the file of outputs/ that path.join(outputsDir, filename) names, if any
FilesNamed(filename) == {f \in outputFiles : OutputName(f.path) = filename}

\* fs.existsSync(filePath)
existsSync(filename) == FilesNamed(filename) # {}

\* app.get('/api/download/:filename'): res.download sends the file (err tells
\* whether sending failed) and schedules its removal, or the answer is 404
GetDownload(filename, err) ==
    /\ Len(downloads) < MaxDownloads
    /\ IF existsSync(filename)
       THEN /\ downloads' = Append(downloads,
                    [filename |-> filename,
                     status |-> IF err THEN 500 ELSE 200,
                     sent |-> {f.path : f \in FilesNamed(filename)}])
            /\ removals' = IF err THEN removals
                           ELSE removals \cup {f.path : f \in FilesNamed(filename)}
       ELSE /\ downloads' = Append(downloads,
                    [filename |-> filename, status |-> 404, sent |-> {}])
            /\ UNCHANGED removals
    /\ UNCHANGED backendVars
    /\ UNCHANGED notDownloadVars

\* a client requests the download URL it has built from a result
DownloadByUrl ==
    \E result \in Results : \E err \in BOOLEAN :
        GetDownload(downloadUrl(result), err)

\* a client requests the base name of the outputPath of a result
DownloadByOutputPath ==
    \E result \in Results : \E err \in BOOLEAN :
        GetDownload(result.outputPath, err)

\* the timeout of a download fires: fs.remove(filePath)
RemoveDownloaded ==
    \E r \in removals :
        /\ removals' = removals \ {r}
        /\ outputFiles' = {f \in outputFiles : f.path # r}
        /\ UNCHANGED <<requests, serverNow, uploadsDir, tempDirs, tempEntries,
                       converterCalls, downloads>>
        /\ UNCHANGED notDownloadVars

NextBackend ==
    \/ ServerTick
    \/ Receive
    \/ ImageStat
    \/ ImageToFile
    \/ ImageToFileFail
    \/ ArchiveStat
    \/ ArchiveEnsureDir
    \/ ArchiveExtract
    \/ ArchiveExtractFail
    \/ ArchiveCreate
    \/ ArchiveCreateFail
    \/ ArchiveRemoveTemp
    \/ Respond
    \/ DownloadByUrl
    \/ DownloadByOutputPath
    \/ RemoveDownloaded

SpecBackend == Init /\ [][NextBackend]_vars

(***************************************************************************)
(* Properties of the compile screen and of mergeFiles, checked under Spec.  *)
(***************************************************************************)
\* ConversionService.getFileCategory
getFileCategory(extension) ==
    IF extension \in ImageTypes THEN "image"
    ELSE IF extension \in AudioTypes THEN "audio"
    ELSE IF extension \in VideoTypes THEN "video"
    ELSE IF extension \in DocumentTypes THEN "document"
    ELSE IF extension \in ArchiveTypes THEN "archive"
    ELSE "text"

\* the file the call in flight has written at its output path, if any
OutputFiles == {f \in cacheDirectory : mfOutputPath # <<>> /\ f.path = mfOutputPath[1]}

LogHas(kinds) == \E p \in 1..Len(mfLog) : mfLog[p][1] \in kinds

\* C1: mergeFiles is called with the files in the order the list showed when
\* Compile was pressed, and the merged output holds the content of input i at
\* position i: chunk k of the i-th file shown is chunk (i-1)*ChunksPerFile + k
\* of the output file.
C1_MergePreservesShownOrder ==
    /\ mfPc # "idle" => mfFiles = shown
    /\ mfPc = "done" =>
        \E f \in OutputFiles :
            /\ Len(f.data) = Len(shown) * ChunksPerFile
            /\ \A i \in 1..Len(shown) : \A k \in 1..ChunksPerFile :
                   f.data[(i - 1) * ChunksPerFile + k] = [src |-> shown[i].id, k |-> k]

\* a merge of two files that were moved out of the order they were picked in,
\* after a third was removed, has completed
C1_Witness ==
    /\ mfPc = "done"
    /\ Len(shown) = 2
    /\ shown[1].id > shown[2].id
    /\ nextId > MaxFiles

\* C3: a merge whose inputs belong to different categories fails and leaves no
\* output file: it never reaches the write, returns nothing and leaves the
\* cache directory as it was.
C3_IncompatibleMergeFails ==
    (\E i, j \in 1..Len(mfFiles) :
        getFileCategory(mfFiles[i].ext) # getFileCategory(mfFiles[j].ext))
    => /\ mfPc \notin {"write", "done"}
       /\ mfResult = <<>>
       /\ cacheDirectory = cacheAtStart

\* C4: the output format of a merge started from the screen is one of the
\* formats the screen offered for the selection when Compile was pressed.
C4_FormatAmongOffered == mfPc # "idle" => mfFormat \in offered

\* C5: merge is all-or-nothing: when a read or the merge of an input fails the
\* call fails, returns nothing and leaves the cache directory as it was; a
\* result is returned only after every input was read and every chunk of every
\* input is in the merged data that was written.
C5_MergeAllOrNothing ==
    /\ LogHas({"readFail", "mergeFail"}) =>
            /\ mfPc = "failed"
            /\ mfResult = <<>>
            /\ cacheDirectory = cacheAtStart
    /\ mfPc = "failed" => mfResult = <<>>
    /\ mfResult # <<>> =>
            /\ mfPc = "done"
            /\ Len(mfBuffers) = Len(mfFiles)
            /\ mfResult[1].fileCount = Len(mfFiles)
            /\ \A i \in 1..Len(mfFiles) : \A k \in 1..ChunksPerFile :
                   \E pos \in 1..Len(mfMerged) :
                       mfMerged[pos] = [src |-> mfFiles[i].id, k |-> k]
            /\ \E f \in OutputFiles : f.data = mfMerged

\* a PDF merge failed on its second input after the first one was loaded
C5_Witness ==
    /\ mfPc = "failed"
    /\ mfFormat = "pdf"
    /\ Len(mfBuffers) >= 2
    /\ \E p \in 1..Len(mfLog) : mfLog[p] = <<"mergeFail", 2>>

\* C9: the phases of one mergeFiles call run in order: the read of input i + 1
\* starts after the read of input i has ended, the merge starts after the read
\* of every input has ended, and the write starts after the merge has ended.
C9_PhasesInOrder ==
    /\ \A p \in 1..Len(mfLog) :
        /\ (mfLog[p][1] = "readStart" /\ mfLog[p][2] > 0) =>
               \E q \in 1..(p - 1) : mfLog[q] = <<"readEnd", mfLog[p][2] - 1>>
        /\ mfLog[p][1] = "readStart" =>
               \A q \in 1..(p - 1) : mfLog[q][1] \notin {"mergeStart", "writeStart"}
        /\ mfLog[p][1] = "mergeStart" =>
               \A i \in 0..(Len(mfFiles) - 1) :
                   \E q \in 1..(p - 1) : mfLog[q] = <<"readEnd", i>>
        /\ mfLog[p][1] = "writeStart" =>
               \E q \in 1..(p - 1) : mfLog[q][1] = "mergeEnd"
    /\ cacheDirectory # cacheAtStart => LogHas({"writeStart"})

\* a merge of three files has been written
C9_Witness ==
    /\ mfPc = "done"
    /\ Len(mfFiles) = MaxFiles
    /\ LogHas({"writeEnd"})

(***************************************************************************)
(* Properties of OfflineProcessor, checked under SpecOffline.               *)
(***************************************************************************)
NonDecreasingPercentages(progress) ==
    /\ \A p \in 1..Len(progress) :
           FracLE(Pct(0), progress[p]) /\ FracLE(progress[p], Pct(100))
    /\ \A p \in 1..(Len(progress) - 1) : FracLE(progress[p], progress[p + 1])

\* C8: the percentages one mergeFiles call, or one processImage call, passes
\* to onProgress are within [0, 100] and never decrease, for any list of one
\* or more files.
C8_ProgressNonDecreasing ==
    /\ NonDecreasingPercentages(mfProgress)
    /\ NonDecreasingPercentages(piProgress)

\* a merge of three files has reported all its percentages
C8_Witness ==
    /\ mfPc = "done"
    /\ Len(mfFiles) = MaxFiles
    /\ Len(mfProgress) = MaxFiles + 4

(***************************************************************************)
(* Properties of the backend server, checked under SpecBackend.             *)
(***************************************************************************)
\* C2: no converter's convert operation is invoked for a pair of source
\* extension and target format that is not a supported conversion.
C2_IllegalPairNeverInvoked ==
    \A c \in converterCalls : isConversionSupported(c.ext, c.target)

\* C6: every compression ratio reported lies in [0, 100] (hundredths in
\* [0, 10000]) and is 0 when the original size is 0.
C6_RatioWithinBounds ==
    /\ \A r \in Requests :
           requests[r].status = 200 =>
               /\ requests[r].ratio.kind = "number"
               /\ requests[r].ratio.hundredths >= 0
               /\ requests[r].ratio.hundredths <= 10000
    /\ piResult # <<>> =>
           /\ piResult[1].compressionRatio.kind = "number"
           /\ piResult[1].compressionRatio.hundredths >= 0
           /\ piResult[1].compressionRatio.hundredths <= 10000
           /\ piResult[1].originalSize = 0 =>
                  piResult[1].compressionRatio.hundredths = 0

\* the archive jobs that hold a temporary directory
HoldsTempDir(r) == requests[r].pc \in {"ensureDir", "extract", "archive", "remove"}

\* C10: two jobs in flight never share a temporary directory, and no output
\* holds what another job extracted.
C10_JobsShareNoPath ==
    /\ \A r1, r2 \in Requests :
           r1 # r2 /\ HoldsTempDir(r1) /\ HoldsTempDir(r2) =>
               requests[r1].tempDir # requests[r2].tempDir
    /\ \A f \in outputFiles : f.entries \subseteq {f.path}

(***************************************************************************)
(* Properties of the convert screen, checked under SpecConvert.             *)
(***************************************************************************)
\* C7: while one job runs, no step makes the progress shown on the screen
\* smaller, whatever the order of the timer's ticks and the service's calls.
C7_ShownProgressNeverDecreases ==
    [][(isConverting /\ isConverting') => conversionProgress' >= conversionProgress]_vars

(***************************************************************************)
(* Cancelling a merge, checked under Spec.                                  *)
(***************************************************************************)
\* Clear All was pressed while the job in flight had not begun to write
ClearedBeforeWrite ==
    isCompiling /\ Len(selectedFiles) = 0 /\ mfPc \in {"read", "merge"}

\* C11: a job cancelled (Clear All) before its write phase begins never enters
\* the write phase: from then on it can only fail, and writes no output.
C11_CancelledJobNeverWrites ==
    [][ClearedBeforeWrite =>
          /\ mfPc' \in {"read", "merge", "failed"}
          /\ cacheDirectory' = cacheDirectory]_vars


\* ---------------------------------------------------------------------------
\* WebAssembly modules: pdf-processor.c, the audio processor, image-processor.c
\* and video-processor.c. One action is one call of an exported function with
\* non-null pointers, on a fresh instance; a buffer is written as the list of
\* pieces copied into it.
\* ---------------------------------------------------------------------------

MaxWasmFiles == 2
MaxSamples == 3
MaxSample == 1
\* sizes on both sides of the header checks of merge_pdfs
PdfSizes == {0, 1, 9, 10}
OutputSizes == {0, 1, 10, 30}
\* qualities whose ratio quality / 100.0f is exact
Qualities == {0, 50, 100}

\* strlen("%PDF-1.4\n"), strlen("\n%%EOF\n"), the header bytes skipped
HeaderLen == 9
FooterLen == 7
SkipHeader == 8

RECURSIVE Pow2(_)
Pow2(k) == IF k = 0 THEN 1 ELSE 2 * Pow2(k - 1)

\* n / d rounded to the nearest integer, ties to even
RoundNearestEven(n, d) ==
    LET q == n \div d
        r == n % d
    IN  IF 2 * r > d \/ (2 * r = d /\ q % 2 = 1) THEN q + 1 ELSE q

RECURSIVE ScaleOf(_, _, _)
ScaleOf(a, b, k) ==
    IF a * Pow2(k) >= b * Pow2(23) THEN k ELSE ScaleOf(a, b, k + 1)

\* (float)a / b in single precision: the value m / 2^k with a 24 bit m
F32Div(a, b) ==
    IF a = 0 THEN [m |-> 0, k |-> 0]
    ELSE LET k == ScaleOf(a, b, 0)
         IN  [m |-> RoundNearestEven(a * Pow2(k), b), k |-> k]

RECURSIVE DropBits(_, _)
DropBits(p, d) == IF p < Pow2(24 + d) THEN d ELSE DropBits(p, d + 1)

\* x * f in single precision, x an integer
F32Mul(x, f) ==
    LET p == x * f.m
        d == DropBits(p, 0)
    IN  [m |-> RoundNearestEven(p, Pow2(d)) * Pow2(d), k |-> f.k]

\* (int)f for f >= 0
F32ToInt(f) == f.m \div Pow2(f.k)

Piece(kind, idx, skip, len) ==
    [kind |-> kind, idx |-> idx, skip |-> skip, len |-> len]

Returned(ret, out) == [ret |-> ret, out |-> out, trap |-> FALSE]
Trapped == [ret |-> 0, out |-> <<>>, trap |-> TRUE]

RECURSIVE SumSizes(_, _)
SumSizes(files, i) ==
    IF i > Len(files) THEN 0 ELSE files[i].size + SumSizes(files, i + 1)

\* the concatenation loop of merge_pdfs from file i on; acc = [offset, out]
RECURSIVE MergePdfsLoop(_, _, _, _)
MergePdfsLoop(files, i, output_size, acc) ==
    IF i > Len(files) THEN acc
    ELSE LET f == files[i]
             skip_header ==
                 IF i > 1 /\ f.size > SkipHeader /\ f.pdf THEN SkipHeader ELSE 0
             copy_size == f.size - skip_header
             copied ==
                 IF f.size > 0 /\ acc.offset + copy_size < output_size
                 THEN [offset |-> acc.offset + copy_size,
                       out |-> Append(acc.out,
                                      Piece("file", i, skip_header, copy_size))]
                 ELSE acc
         IN  MergePdfsLoop(files, i + 1, output_size, copied)

merge_pdfs(files, output_size) ==
    IF Len(files) <= 0 \/ output_size <= 0 THEN Returned(-1, <<>>)
    ELSE IF SumSizes(files, 1) > output_size THEN Returned(-1, <<>>)
    ELSE LET header ==
                 IF HeaderLen < output_size
                 THEN [offset |-> HeaderLen,
                       out |-> <<Piece("header", 0, 0, HeaderLen)>>]
                 ELSE [offset |-> 0, out |-> <<>>]
             body == MergePdfsLoop(files, 1, output_size, header)
             footer ==
                 IF body.offset + FooterLen < output_size
                 THEN [offset |-> body.offset + FooterLen,
                       out |-> Append(body.out,
                                      Piece("footer", 0, 0, FooterLen))]
                 ELSE body
         IN  Returned(footer.offset, footer.out)

\* page i (from 0) of split_pdf: where it starts and how much of it is copied
SplitPage(input_size, page_sizes, page_count, i) ==
    LET page_size == input_size \div page_count
        start_offset == i * page_size
        end_offset ==
            IF i = page_count - 1 THEN input_size ELSE (i + 1) * page_size
        current_page_size ==
            IF end_offset - start_offset > page_sizes[i + 1]
            THEN page_sizes[i + 1]
            ELSE end_offset - start_offset
    IN  Piece("page", i, start_offset, current_page_size)

split_pdf(input_size, page_sizes, max_pages, page_count) ==
    IF input_size <= 0 \/ max_pages <= 0 \/ page_count <= 0
       \/ page_count > max_pages
    THEN Returned(-1, <<>>)
    ELSE Returned(0, [j \in 1..page_count |->
                         SplitPage(input_size, page_sizes, page_count, j - 1)])

RECURSIVE SumSamples(_, _, _)
SumSamples(input_data, from, to) ==
    IF from > to THEN 0
    ELSE input_data[from + 1] + SumSamples(input_data, from + 1, to)

\* the last sample of the window that starts at i
WindowEnd(input_size, i, step) ==
    IF i + step - 1 < input_size - 1 THEN i + step - 1 ELSE input_size - 1

\* output_data[j] of the compression loop: (unsigned char)(sum / count)
AverageSample(input_data, i, step) ==
    LET last == WindowEnd(Len(input_data), i, step)
        sum == SumSamples(input_data, i, last)
        count == last - i + 1
    IN  (sum \div count) % 256

\* target_size before it is cut down to the capacity
TargetSize(input_size, quality) ==
    F32ToInt(F32Mul(input_size, F32Div(quality, 100)))

\* the outcomes of compress_audio; input_size / target_size with a
\* target_size of 0 is undefined: the call traps, or goes on with no sample
\* to write
compress_audio(input_data, output_size, quality) ==
    LET input_size == Len(input_data)
        wanted == TargetSize(input_size, quality)
        target_size == IF wanted > output_size THEN output_size ELSE wanted
        step == IF input_size \div target_size < 1 THEN 1
                ELSE input_size \div target_size
        written == {j \in 0..(target_size - 1) : j * step < input_size}
    IN  IF input_size <= 0 \/ output_size <= 0 THEN {Returned(-1, <<>>)}
        ELSE IF target_size = 0 THEN {Trapped, Returned(0, <<>>)}
        ELSE {Returned(target_size,
                       [j \in 1..Cardinality(written) |->
                           AverageSample(input_data, (j - 1) * step, step)])}

\* compress_video is the same code over frames
compress_video(input_data, output_size, quality) ==
    compress_audio(input_data, output_size, quality)

PdfFiles == [size : PdfSizes, pdf : BOOLEAN]
SampleSeqs == UNION {[1..n -> 0..MaxSample] : n \in 0..MaxSamples}

CallMergePdfs ==
    /\ wasmCall.fn = "none"
    /\ \E n \in 0..MaxWasmFiles, output_size \in OutputSizes :
         \E files \in [1..n -> PdfFiles] :
           /\ wasmCall' = [fn |-> "merge_pdfs", files |-> files,
                           output_size |-> output_size]
           /\ wasmRet' = merge_pdfs(files, output_size)
    /\ UNCHANGED notWasmVars

CallSplitPdf ==
    /\ wasmCall.fn = "none"
    /\ \E input_size \in 0..MaxSamples, max_pages \in 0..MaxWasmFiles,
          page_count \in 0..(MaxWasmFiles + 1) :
         \E page_sizes \in [1..max_pages -> 0..MaxSamples] :
           /\ wasmCall' = [fn |-> "split_pdf", input_size |-> input_size,
                           page_sizes |-> page_sizes, max_pages |-> max_pages,
                           page_count |-> page_count]
           /\ wasmRet' = split_pdf(input_size, page_sizes, max_pages,
                                   page_count)
    /\ UNCHANGED notWasmVars

CallCompressAudio ==
    /\ wasmCall.fn = "none"
    /\ \E input_data \in SampleSeqs, output_size \in 0..MaxSamples,
          quality \in Qualities :
         /\ wasmCall' = [fn |-> "compress_audio", input_data |-> input_data,
                         output_size |-> output_size, quality |-> quality]
         /\ wasmRet' \in compress_audio(input_data, output_size, quality)
    /\ UNCHANGED notWasmVars

CallCompressVideo ==
    /\ wasmCall.fn = "none"
    /\ \E input_data \in SampleSeqs, output_size \in 0..MaxSamples,
          quality \in Qualities :
         /\ wasmCall' = [fn |-> "compress_video", input_data |-> input_data,
                         output_size |-> output_size, quality |-> quality]
         /\ wasmRet' \in compress_video(input_data, output_size, quality)
    /\ UNCHANGED notWasmVars

\* widths and heights; 26 columns resized to 22 is the smallest pair of this
\* kind where the single precision product misses the exact quotient
Widths == {0, 1, 2, 3, 22, 26}
Heights == {0, 1, 2, 3}

\* src_x for output column x (src_y for row y): (int)(x * x_ratio), clamped
SourceCoordinate(x, input_width, output_width) ==
    LET x_ratio == F32Div(input_width, output_width)
        src_x == F32ToInt(F32Mul(x, x_ratio))
    IN  IF src_x >= input_width THEN input_width - 1 ELSE src_x

\* the copy loops: output pixel (x, y) is copied from (srcX[x + 1], srcY[y + 1])
ResizeLoops(input_width, input_height, output_width, output_height) ==
    [srcX |-> [x \in 1..output_width |->
                  SourceCoordinate(x - 1, input_width, output_width)],
     srcY |-> [y \in 1..output_height |->
                  SourceCoordinate(y - 1, input_height, output_height)]]

resize_image(input_width, input_height, output_width, output_height, channels) ==
    IF input_width <= 0 \/ input_height <= 0 \/ output_width <= 0
       \/ output_height <= 0 \/ channels <= 0
    THEN Returned(-1, <<>>)
    ELSE Returned(0, ResizeLoops(input_width, input_height, output_width,
                                 output_height))

resize_video_frames(input_width, input_height, output_width, output_height, num_frames) ==
    IF input_width <= 0 \/ input_height <= 0 \/ output_width <= 0
       \/ output_height <= 0 \/ num_frames <= 0
    THEN Returned(-1, <<>>)
    ELSE Returned(0, ResizeLoops(input_width, input_height, output_width,
                                 output_height))

CallResizeImage ==
    /\ wasmCall.fn = "none"
    /\ \E input_width \in Widths, output_width \in Widths,
          input_height \in Heights, output_height \in Heights,
          channels \in {0, 1} :
         /\ wasmCall' = [fn |-> "resize_image", input_width |-> input_width,
                         input_height |-> input_height,
                         output_width |-> output_width,
                         output_height |-> output_height,
                         channels |-> channels]
         /\ wasmRet' = resize_image(input_width, input_height, output_width,
                                    output_height, channels)
    /\ UNCHANGED notWasmVars

CallResizeVideoFrames ==
    /\ wasmCall.fn = "none"
    /\ \E input_width \in Widths, output_width \in Widths,
          input_height \in Heights, output_height \in Heights,
          num_frames \in {0, 1} :
         /\ wasmCall' = [fn |-> "resize_video_frames",
                         input_width |-> input_width,
                         input_height |-> input_height,
                         output_width |-> output_width,
                         output_height |-> output_height,
                         num_frames |-> num_frames]
         /\ wasmRet' = resize_video_frames(input_width, input_height,
                                           output_width, output_height,
                                           num_frames)
    /\ UNCHANGED notWasmVars

NextWasm ==
    \/ CallMergePdfs
    \/ CallSplitPdf
    \/ CallCompressAudio
    \/ CallCompressVideo
    \/ CallResizeImage
    \/ CallResizeVideoFrames

SpecWasm == Init /\ [][NextWasm]_vars

\* ---------------------------------------------------------------------------
\* ArchiveConverter.createArchiveFromFiles. A path is the list of its
\* segments; the archive is the list of entries given to archive.file.
\* ---------------------------------------------------------------------------

MaxBundle == 2
BundleDirs == {"a", "b"}
BundleNames == {"x.txt", "y.txt"}
BundlePaths == {<<d, n>> : d \in BundleDirs, n \in BundleNames}
BundleFormats == {"zip", "tar", "rar"}

\* path.basename
basename(filePath) == filePath[Len(filePath)]

\* filePaths.forEach: one entry, named by basename, per path that exists
RECURSIVE AddFiles(_, _, _)
AddFiles(filePaths, existing, i) ==
    IF i > Len(filePaths) THEN <<>>
    ELSE IF filePaths[i] \in existing
         THEN <<[name |-> basename(filePaths[i]), source |-> i]>>
              \o AddFiles(filePaths, existing, i + 1)
         ELSE AddFiles(filePaths, existing, i + 1)

\* the body of the promise: the format switch, then the files, then finalize
createArchiveFromFiles ==
    /\ bundlePc = "none"
    /\ \E n \in 0..MaxBundle, format \in BundleFormats,
          existing \in SUBSET BundlePaths :
         \E filePaths \in [1..n -> BundlePaths] :
           /\ bundleCall' = [filePaths |-> filePaths, format |-> format,
                             existing |-> existing]
           /\ IF format \in {"zip", "tar"}
              THEN /\ bundleEntries' = AddFiles(filePaths, existing, 1)
                   /\ bundlePc' = "finalized"
              ELSE /\ bundleEntries' = <<>>
                   /\ bundlePc' = "rejected"
    /\ UNCHANGED notBundleVars

\* output.on('close')
BundleClosed ==
    /\ bundlePc = "finalized"
    /\ bundlePc' = "resolved"
    /\ UNCHANGED <<bundleCall, bundleEntries>>
    /\ UNCHANGED notBundleVars

\* archive.on('error')
BundleError ==
    /\ bundlePc = "finalized"
    /\ bundlePc' = "rejected"
    /\ UNCHANGED <<bundleCall, bundleEntries>>
    /\ UNCHANGED notBundleVars

NextBundle ==
    \/ createArchiveFromFiles
    \/ BundleClosed
    \/ BundleError

SpecBundle == Init /\ [][NextBundle]_vars

\* ---------------------------------------------------------------------------
\* SupabaseHistoryService: each operation asks isSupabaseEnabled(), then calls
\* Supabase, and falls back to the HistoryService operation of the same name.
\* Operations are called with their default options; names and queries are
\* single letters, so that LIKE %query% is equality.
\* ---------------------------------------------------------------------------

MaxHistoryCalls == 3
MaxHistoryId == 2
HistoryNames == {"a", "b"}
HistoryOps == {"add", "get", "delete", "clear", "stats", "search"}

HistoryArgs(op) ==
    CASE op = "add" -> {[name |-> n, id |-> 0] : n \in HistoryNames}
      [] op = "search" -> {[name |-> n, id |-> 0] : n \in HistoryNames}
      [] op = "delete" -> {[name |-> "", id |-> k] : k \in 1..MaxHistoryId}
      [] OTHER -> {NoArg}

RECURSIVE Newest(_)
Newest(rows) ==
    IF rows = <<>> THEN <<>>
    ELSE <<rows[Len(rows)]>> \o Newest(SubSeq(rows, 1, Len(rows) - 1))

RECURSIVE RowsWhere(_, _, _)
RowsWhere(rows, name, withoutId) ==
    IF rows = <<>> THEN <<>>
    ELSE LET kept == (name = "" \/ rows[1].name = name)
                     /\ rows[1].id # withoutId
         IN  (IF kept THEN <<rows[1]>> ELSE <<>>)
             \o RowsWhere(Tail(rows), name, withoutId)

HistoryResult(kind, id, rows, ok) ==
    [kind |-> kind, id |-> id, rows |-> rows, ok |-> ok]

\* the HistoryService operation op on the SQLite table: the table afterwards
\* and the value returned
HistoryService(op, arg, table) ==
    CASE op = "add" ->
           [table |-> [rows |-> Append(table.rows,
                                       [id |-> table.nextId, name |-> arg.name]),
                       nextId |-> table.nextId + 1],
            result |-> HistoryResult("id", table.nextId, <<>>, FALSE)]
      [] op = "get" ->
           [table |-> table,
            result |-> HistoryResult("rows", 0, Newest(table.rows), FALSE)]
      [] op = "delete" ->
           LET left == RowsWhere(table.rows, "", arg.id)
           IN  [table |-> [table EXCEPT !.rows = left],
                result |-> HistoryResult("bool", 0, <<>>,
                                         Len(left) < Len(table.rows))]
      [] op = "clear" ->
           [table |-> [table EXCEPT !.rows = <<>>],
            result |-> HistoryResult("bool", 0, <<>>, TRUE)]
      [] op = "stats" ->
           [table |-> table,
            result |-> HistoryResult("stats", Len(table.rows), <<>>, FALSE)]
      [] op = "search" ->
           [table |-> table,
            result |-> HistoryResult("rows", 0,
                                     Newest(RowsWhere(table.rows, arg.name, 0)),
                                     FALSE)]

\* the try block of operation op when the Supabase call answers without error
Supabase(op, arg, table) ==
    CASE op = "delete" ->
           [table |-> [table EXCEPT !.rows = RowsWhere(table.rows, "", arg.id)],
            result |-> HistoryResult("bool", 0, <<>>, TRUE)]
      [] OTHER -> HistoryService(op, arg, table)

\* a fallback that takes clearHistory for deleteHistoryItem
FallbackSwapped(op) == IF op = "delete" THEN "clear" ELSE op

\* the HistoryService operation that operation op returns in its
\* !isSupabaseEnabled() branch and in its catch block
Fallback(op) == op

\* a call of an operation, up to its first await
CallHistory ==
    /\ hsPc = "idle"
    /\ hsCalls < MaxHistoryCalls
    /\ hsCalls' = hsCalls + 1
    /\ hsFailed' = FALSE
    /\ \E op \in HistoryOps, enabled \in BOOLEAN :
         \E arg \in HistoryArgs(op) :
           /\ hsCall' = [op |-> op, arg |-> arg, enabled |-> enabled]
           /\ IF enabled
              THEN /\ hsPc' = "awaiting"
                   /\ UNCHANGED <<hsLocal, hsResult>>
              ELSE LET local == HistoryService(Fallback(op), arg, hsLocal)
                   IN  /\ hsPc' = "done"
                       /\ hsLocal' = local.table
                       /\ hsResult' = local.result
    /\ UNCHANGED hsRemote
    /\ UNCHANGED notHistoryVars

\* the Supabase call answers { data, error: null }
SupabaseAnswers ==
    /\ hsPc = "awaiting"
    /\ LET remote == Supabase(hsCall.op, hsCall.arg, hsRemote)
       IN  /\ hsRemote' = remote.table
           /\ hsResult' = remote.result
    /\ hsPc' = "done"
    /\ UNCHANGED <<hsLocal, hsCall, hsFailed, hsCalls>>
    /\ UNCHANGED notHistoryVars

\* the Supabase call answers an error or throws, with or without having
\* changed the table: the catch block
SupabaseFails ==
    /\ hsPc = "awaiting"
    /\ \E applied \in BOOLEAN :
         hsRemote' = IF applied
                     THEN Supabase(hsCall.op, hsCall.arg, hsRemote).table
                     ELSE hsRemote
    /\ hsFailed' = TRUE
    /\ LET local == HistoryService(Fallback(hsCall.op), hsCall.arg, hsLocal)
       IN  /\ hsLocal' = local.table
           /\ hsResult' = local.result
    /\ hsPc' = "done"
    /\ UNCHANGED <<hsCall, hsCalls>>
    /\ UNCHANGED notHistoryVars

\* the caller has the result
HistoryReturns ==
    /\ hsPc = "done"
    /\ hsPc' = "idle"
    /\ UNCHANGED <<hsLocal, hsRemote, hsCall, hsFailed, hsResult, hsCalls>>
    /\ UNCHANGED notHistoryVars

NextHistory ==
    \/ CallHistory
    \/ SupabaseAnswers
    \/ SupabaseFails
    \/ HistoryReturns

SpecHistory == Init /\ [][NextHistory]_vars

\* ---------------------------------------------------------------------------
\* EditScreen: applyEdit with its undo and redo stacks and its progress
\* interval. The Undo and Redo buttons are on the screen whenever their stack
\* is not empty. The screen mounts an editor, whose Apply button calls
\* applyEdit, for files of the five known types; applyEdit itself takes any
\* selected file and throws on one of no known type.
\* ---------------------------------------------------------------------------

MaxEdits == 2
EditFiles == {[name |-> "a", ext |-> "jpg"], [name |-> "b", ext |-> "mp3"], [name |-> "c", ext |-> "bin"]}

\* getFileTypeAndModes().type: typeMap[extension] || { type: 'unknown' }
getFileTypeAndModes(file) ==
    IF file.ext \in {"jpg", "jpeg", "png", "webp", "gif"} THEN "image"
    ELSE IF file.ext \in {"mp3", "wav", "aac"} THEN "audio"
    ELSE IF file.ext \in {"mp4", "mov", "avi", "mkv"} THEN "video"
    ELSE IF file.ext \in {"pdf", "docx", "txt", "pptx"} THEN "document"
    ELSE IF file.ext \in {"zip", "rar", "7z"} THEN "archive"
    ELSE "unknown"

\* the cases of the switch of applyEdit that await an edit
EditableTypes == {"image", "audio", "video", "document", "archive"}

\* { file: selectedFile, result: editResult }
Displayed(file, result) == [file |-> file, result |-> result]

\* prev.slice(0, -1)
SliceLast(prev) == SubSeq(prev, 1, Len(prev) - 1)

\* handleFileSelection of the edit screen, the picker having resolved
EditFileSelection ==
    /\ edSelectedFile = <<>>
    /\ \E file \in EditFiles : edSelectedFile' = <<file>>
    /\ editResult' = <<>>
    /\ processingProgress' = 0
    /\ undoStack' = <<>>
    /\ redoStack' = <<>>
    /\ edCompleted' = <<>>
    /\ edCall' = IF edCall = <<>> THEN edCall
                 ELSE <<[edCall[1] EXCEPT !.undoRedoOnly = FALSE]>>
    /\ UNCHANGED <<isProcessing, edits, edIntervals>>
    /\ UNCHANGED notEditVars

\* clearSelection of the edit screen
EditClearSelection ==
    /\ edSelectedFile # <<>>
    /\ edSelectedFile' = <<>>
    /\ editResult' = <<>>
    /\ processingProgress' = 0
    /\ undoStack' = <<>>
    /\ redoStack' = <<>>
    /\ edCompleted' = <<>>
    /\ edCall' = IF edCall = <<>> THEN edCall
                 ELSE <<[edCall[1] EXCEPT !.undoRedoOnly = FALSE]>>
    /\ UNCHANGED <<isProcessing, edits, edIntervals>>
    /\ UNCHANGED notEditVars

\* applyEdit up to its await (one edit at a time in this model); for a file of
\* no known type the switch throws before any await, and the catch and the
\* finally follow at once
applyEdit ==
    /\ edSelectedFile # <<>>
    /\ ~isProcessing
    /\ edits < MaxEdits
    /\ edits' = edits + 1
    /\ processingProgress' = 0
    /\ undoStack' = Append(undoStack, Displayed(edSelectedFile, editResult))
    /\ redoStack' = <<>>
    /\ edIntervals' = edIntervals \cup {edits + 1}
    /\ IF getFileTypeAndModes(edSelectedFile[1]) \in EditableTypes
       THEN /\ isProcessing' = TRUE
            /\ edCall' = <<[file |-> edSelectedFile, result |-> editResult,
                            n |-> edits + 1, undoRedoOnly |-> TRUE]>>
       ELSE /\ isProcessing' = FALSE
            /\ edCall' = <<>>
    /\ edCompleted' = <<>>
    /\ UNCHANGED <<edSelectedFile, editResult>>
    /\ UNCHANGED notEditVars

\* the callback of setInterval of edit n, every 200 ms:
\* setProcessingProgress(prev => ...)
EditProgressTick(n) ==
    /\ n \in edIntervals
    /\ processingProgress' = IF processingProgress >= 90 THEN 90
                             ELSE processingProgress + 10
    /\ edIntervals' = IF processingProgress >= 90 THEN edIntervals \ {n}
                      ELSE edIntervals
    /\ UNCHANGED <<edSelectedFile, editResult, undoStack, redoStack,
                   isProcessing, edCall, edCompleted, edits>>
    /\ UNCHANGED notEditVars

\* a progress interval of the edit screen fires
EditTimerFires ==
    /\ edIntervals # {}
    /\ \E n \in 1..MaxEdits : EditProgressTick(n)

\* the edit resolves: clearInterval, setEditResult(result) and the finally
EditResolves ==
    /\ edCall # <<>>
    /\ edIntervals' = edIntervals \ {edCall[1].n}
    /\ processingProgress' = 100
    /\ editResult' = <<[outputPath |-> edCall[1].file, n |-> edCall[1].n]>>
    /\ isProcessing' = FALSE
    /\ edCall' = <<>>
    /\ edCompleted' = IF edCall[1].undoRedoOnly
                      THEN <<Displayed(edCall[1].file, edCall[1].result)>>
                      ELSE <<>>
    /\ UNCHANGED <<edSelectedFile, undoStack, redoStack, edits>>
    /\ UNCHANGED notEditVars

undoEdit ==
    /\ Len(undoStack) > 0
    /\ LET lastState == undoStack[Len(undoStack)]
       IN  /\ redoStack' = Append(redoStack,
                                  Displayed(edSelectedFile, editResult))
           /\ edSelectedFile' = lastState.file
           /\ editResult' = lastState.result
    /\ undoStack' = SliceLast(undoStack)
    /\ edCompleted' = <<>>
    /\ UNCHANGED <<isProcessing, processingProgress, edCall, edits,
                   edIntervals>>
    /\ UNCHANGED notEditVars

redoEdit ==
    /\ Len(redoStack) > 0
    /\ LET lastState == redoStack[Len(redoStack)]
       IN  /\ undoStack' = Append(undoStack,
                                  Displayed(edSelectedFile, editResult))
           /\ edSelectedFile' = lastState.file
           /\ editResult' = lastState.result
    /\ redoStack' = SliceLast(redoStack)
    /\ edCompleted' = <<>>
    /\ UNCHANGED <<isProcessing, processingProgress, edCall, edits,
                   edIntervals>>
    /\ UNCHANGED notEditVars

NextEdit ==
    \/ EditFileSelection
    \/ EditClearSelection
    \/ applyEdit
    \/ EditTimerFires
    \/ EditResolves
    \/ undoEdit
    \/ redoEdit

SpecEdit == Init /\ [][NextEdit]_vars

RECURSIVE SumLens(_, _)
SumLens(out, i) ==
    IF i > Len(out) THEN 0 ELSE out[i].len + SumLens(out, i + 1)

\* the result of the call did not fit in the capacity the caller gave: an
\* input file has no piece in the output, the pages hold less than the input,
\* or the compressed size was cut down to the capacity
DidNotFit ==
    CASE wasmCall.fn = "merge_pdfs" ->
           \E f \in 1..Len(wasmCall.files) :
             /\ wasmCall.files[f].size > 0
             /\ \A c \in 1..Len(wasmRet.out) :
                  ~(wasmRet.out[c].kind = "file" /\ wasmRet.out[c].idx = f)
      [] wasmCall.fn = "split_pdf" ->
           /\ wasmRet.ret = 0
           /\ SumLens(wasmRet.out, 1) < wasmCall.input_size
      [] wasmCall.fn \in {"compress_audio", "compress_video"} ->
           /\ Len(wasmCall.input_data) > 0
           /\ TargetSize(Len(wasmCall.input_data), wasmCall.quality)
                > wasmCall.output_size
      [] OTHER -> FALSE

\* C12: a call whose result does not fit in the caller's capacity signals an
\* error (-1); it never returns success for a truncated output or for an output
\* from which an input file was left out.
C12_TooSmallIsSignalled ==
    (DidNotFit /\ ~wasmRet.trap) => wasmRet.ret = -1

Clamp(v, lo, hi) == IF v < lo THEN lo ELSE IF v > hi THEN hi ELSE v

\* C13: a resize with positive dimensions writes exactly w x h pixels, and
\* output pixel (x, y) comes from source pixel
\* (clamp(floor(x * src_w / w), 0, src_w - 1),
\*  clamp(floor(y * src_h / h), 0, src_h - 1)).
C13_ResizeSamplesFloor ==
    (wasmCall.fn \in {"resize_image", "resize_video_frames"}
     /\ wasmRet.ret = 0 /\ ~wasmRet.trap) =>
        /\ Len(wasmRet.out.srcX) = wasmCall.output_width
        /\ Len(wasmRet.out.srcY) = wasmCall.output_height
        /\ \A x \in 0..(wasmCall.output_width - 1) :
             wasmRet.out.srcX[x + 1] =
                 Clamp((x * wasmCall.input_width) \div wasmCall.output_width,
                       0, wasmCall.input_width - 1)
        /\ \A y \in 0..(wasmCall.output_height - 1) :
             wasmRet.out.srcY[y + 1] =
                 Clamp((y * wasmCall.input_height) \div wasmCall.output_height,
                       0, wasmCall.input_height - 1)

\* q is an integer nearest to n / d (either neighbour at a tie)
IsNearest(q, n, d) == 2 * (n - q * d) <= d /\ 2 * (q * d - n) <= d

\* C14: each output sample of a compression is the mean of the step
\* consecutive input samples of its window, rounded to the nearest integer,
\* step being input size / target size.
C14_SampleIsRoundedMean ==
    (wasmCall.fn \in {"compress_audio", "compress_video"}
     /\ wasmRet.ret > 0 /\ ~wasmRet.trap) =>
        LET input_data == wasmCall.input_data
            step == IF Len(input_data) \div wasmRet.ret < 1 THEN 1
                    ELSE Len(input_data) \div wasmRet.ret
        IN  \A j \in 1..Len(wasmRet.out) :
              IsNearest(wasmRet.out[j],
                        SumSamples(input_data, (j - 1) * step,
                                   j * step - 1),
                        step)

\* C15: an archive made from N files has exactly one entry per input, and the
\* names of its entries are pairwise distinct.
C15_OneEntryPerInput ==
    bundlePc = "resolved" =>
        /\ Len(bundleEntries) = Len(bundleCall.filePaths)
        /\ \A i, j \in 1..Len(bundleEntries) :
             i # j => bundleEntries[i].name # bundleEntries[j].name

\* C16: the compression level of every job that reaches a converter is one of
\* low, medium, high.
C16_LevelAmongThree ==
    \A c \in converterCalls : c.compressionLevel \in {"low", "medium", "high"}

\* C17: when Supabase is disabled or its call fails, an operation of
\* SupabaseHistoryService completes with the result and the effect of the
\* HistoryService operation of the same name on the local table; the failure
\* of Supabase is not what the caller gets.
C17_FallsBackToLocal ==
    [][(hsPc # "done" /\ hsPc' = "done" /\ (~hsCall'.enabled \/ hsFailed')) =>
          LET local == HistoryService(hsCall'.op, hsCall'.arg, hsLocal)
          IN  /\ hsResult' = local.result
              /\ hsLocal' = local.table
              /\ hsResult'.kind \in {"id", "rows", "bool", "stats"}]_vars

\* a deletion fell back to the local table, which holds the row, after the
\* Supabase call failed
C17_Witness ==
    /\ hsPc = "done"
    /\ hsFailed
    /\ hsCall.op = "delete"
    /\ hsResult.ok
    /\ hsLocal.rows # <<>>

\* a step of a running merge job leaves its inputs alone
InputsUnchangedStep ==
    mfPc \in {"read", "merge", "write"} =>
        /\ PickerCopies(mfFiles) \subseteq cacheDirectory
        /\ PickerCopies(mfFiles) \subseteq cacheDirectory'
        /\ \A f \in (cacheDirectory' \ cacheDirectory)
                      \cup (cacheDirectory \ cacheDirectory') :
               mfOutputPath # <<>> /\ f.path = mfOutputPath[1]
        /\ mfOutputPath' # <<>> =>
               \A i \in 1..Len(mfFiles) :
                   mfOutputPath'[1] # PickerUri(mfFiles[i])

\* C18: while a merge job runs, every input file stays in place with its
\* content; the only file the job writes or replaces is the one at its output
\* path, and that path is the URI of none of its inputs.
C18_InputsUnchanged == [][InputsUnchangedStep]_vars

\* a merge of two files has written its output next to the two inputs
C18_Witness ==
    /\ mfPc = "done"
    /\ Len(mfFiles) = 2
    /\ OutputFiles # {}
    /\ PickerCopies(mfFiles) \subseteq cacheDirectory
    /\ Cardinality(cacheDirectory) = 3

\* C19: a conversion result on the screen was produced from the file and the
\* target format that are selected now.
C19_ResultOfCurrentSelection ==
    conversionResult # <<>> =>
        /\ cvSelectedFile # <<>>
        /\ conversionResult[1].originalFile = cvSelectedFile[1]
        /\ conversionResult[1].targetFormat = cvTargetFormat

\* C20: once an edit has completed, one press of Undo restores the file and
\* the result that were displayed when the edit was started: the Undo button
\* is there and the state it restores, the top of undoStack, is that one,
\* whatever Undo and Redo presses came while the edit was in progress.
C20_UndoRestoresStart ==
    edCompleted # <<>> =>
        /\ Len(undoStack) > 0
        /\ undoStack[Len(undoStack)] = edCompleted[1]

\* a call of applyEdit that has failed: it has run to its end without
\* leaving an edit in progress
EditFailedStep == edits' # edits /\ edCall' = <<>>

NoJobStep == cfPc = "idle" /\ cfPc' = "idle" /\ cvSelectedFile' = cvSelectedFile

\* C22: once a job has ended, by success or by failure, its progress timer is
\* stopped: while no job runs, and until the next one starts, the displayed
\* progress does not change.
C22_ProgressRestsAfterJob ==
    [][NoJobStep => conversionProgress' = conversionProgress]_vars

\* the positions of fileOrder that hold id
PositionsOf(id) == {j \in 1..Len(fileOrder) : fileOrder[j] = id}

\* C23: whatever files have been added and removed and whatever moves have
\* been made, for ids that are selected or that have been removed, fileOrder
\* holds the id of every selected file exactly once and nothing else, and the
\* ordered list that is shown and merged consists of exactly the selected
\* files.
C23_OrderListsSelection ==
    /\ \A i \in 1..Len(selectedFiles) :
           Cardinality(PositionsOf(selectedFiles[i].id)) = 1
    /\ \A j \in 1..Len(fileOrder) :
           \E i \in 1..Len(selectedFiles) : selectedFiles[i].id = fileOrder[j]
    /\ LET ordered == getOrderedFiles(selectedFiles, fileOrder)
       IN  /\ Len(ordered) = Len(selectedFiles)
           /\ {ordered[i] : i \in 1..Len(ordered)}
                  = {selectedFiles[i] : i \in 1..Len(selectedFiles)}

\* C24: a GET of the download URL that a client has built from the fileName of
\* a successful response is answered with the output file of that request
\* and not with 404, as long as that file has not been downloaded before.
C24_DownloadUrlServesOutput ==
    \A i \in 1..Len(downloads) :
        \A result \in Results :
            /\ downloads[i].filename = downloadUrl(result)
            /\ \A j \in 1..(i - 1) : result.from \notin downloads[j].sent
            => /\ downloads[i].status # 404
               /\ result.from \in downloads[i].sent

\* C25: once the response to a request has been sent, with whatever status,
\* the upload of that request is no longer in the uploads directory.
C25_NoUploadAfterResponse ==
    \A r \in Requests : requests[r].pc = "responded" => r \notin uploadsDir

\* C26: a request whose pair of source format and target format
\* isConversionSupported reports as supported is routed to a converter branch
\* that performs the conversion: it is not answered with the error of a branch
\* for unsupported formats or conversions.
C26_SupportedPairIsPerformed ==
    \A r \in Requests :
        /\ requests[r].pc = "responded"
        /\ isConversionSupported(requests[r].ext, requests[r].target)
        => ~requests[r].rejected
=============================================================================
